---- MODULE Spec2Model ----
(***************************************************************************)
(* gltfio AssetLoader (libs/gltfio/src/AssetLoader.cpp): the conversion of *)
(* a parsed glTF document into entities, transforms, renderables, material *)
(* instances and a deferred binding plan.                                  *)
(*                                                                         *)
(* The loader is modelled as a state machine.  One import call is a        *)
(* sequence of steps: the entry point (parse, asset creation, scene        *)
(* selection, root entity), one createEntity step per visited node (the    *)
(* recursion is an explicit stack), the error check, the skin import, the  *)
(* target collection, the cleanup and the return.  Pointers are modelled   *)
(* as small integers: positive handles belong to the import in progress,   *)
(* negative handles to objects of an earlier import.  Floats are modelled  *)
(* as integers, FltMax standing for FLT_MAX.                               *)
(***************************************************************************)
EXTENDS Integers, Sequences, FiniteSets, TLC

\* Number of nodes of every document drawn as input.
MaxNodes == 3

\* Aabb's default corners are +/- FLT_MAX (struct Primitive, Aabb aabb).
FltMax == 1000

Nodes == 1 .. MaxNodes

----------------------------------------------------------------------------
(* Small helpers.                                                          *)

Min(a, b) == IF a < b THEN a ELSE b
Max(a, b) == IF a > b THEN a ELSE b
Abs(a) == IF a < 0 THEN -a ELSE a
Range(s) == {s[i] : i \in DOMAIN s}

\* A function f with key k set to v (k may be new): std::map operator[] = v.
Put(f, k, v) == [x \in DOMAIN f \cup {k} |-> IF x = k THEN v ELSE f[x]]

RECURSIVE SeqOfSet(_)
\* The elements of a finite set of integers in increasing order.
SeqOfSet(S) ==
    IF S = {} THEN << >>
    ELSE LET m == CHOOSE x \in S : \A y \in S : x <= y
         IN  << m >> \o SeqOfSet(S \ {m})

----------------------------------------------------------------------------
(* float3 / Aabb / mat4f, in two dimensions over the integers.             *)

\* A float with magnitude FLT_MAX or more (FLT_MAX, or inf after scaling).
Huge(v) == Abs(v) >= FltMax
Sat(v) == IF v >= FltMax THEN FltMax ELSE IF v <= -FltMax THEN -FltMax ELSE v

\* k * v and u + v as floats compute them: 0 * FLT_MAX = 0, FLT_MAX + t = FLT_MAX.
FMul(k, v) == IF k = 0 \/ v = 0 THEN 0 ELSE IF Huge(v) \/ Huge(k) THEN Sat(k * v * FltMax) ELSE Sat(k * v)
FAdd(u, v) == IF Huge(u) THEN Sat(u) ELSE IF Huge(v) THEN Sat(v) ELSE Sat(u + v)

VMin(p, q) == << Min(p[1], q[1]), Min(p[2], q[2]) >>
VMax(p, q) == << Max(p[1], q[1]), Max(p[2], q[2]) >>

\* Aabb(): min = FLT_MAX, max = -FLT_MAX.
EmptyAabb == [min |-> << FltMax, FltMax >>, max |-> << -FltMax, -FltMax >>]

\* An affine transform: x' = a x + b y + tx, y' = c x + d y + ty.
Mat(a, b, c, d, tx, ty) == [a |-> a, b |-> b, c |-> c, d |-> d, tx |-> tx, ty |-> ty]
IdentityMat == Mat(1, 0, 0, 1, 0, 0)

\* worldTransform * float4(p, 1.0)
Apply(m, p) ==
    << FAdd(FAdd(FMul(m.a, p[1]), FMul(m.b, p[2])), m.tx),
       FAdd(FAdd(FMul(m.c, p[1]), FMul(m.d, p[2])), m.ty) >>

\* parentWorld * local
Compose(p, l) ==
    Mat(p.a * l.a + p.b * l.c, p.a * l.b + p.b * l.d,
        p.c * l.a + p.d * l.c, p.c * l.b + p.d * l.d,
        p.a * l.tx + p.b * l.ty + p.tx, p.c * l.tx + p.d * l.ty + p.ty)

\* The local transforms documents draw from: identity, a translation, a mirror
\* (negative scale on x) and a quarter turn (x, y) -> (-y, x).
Transforms == { IdentityMat, Mat(1, 0, 0, 1, 2, -1), Mat(-1, 0, 0, 1, 0, 0), Mat(0, -1, 1, 0, 0, 0) }

----------------------------------------------------------------------------
(* The document model (cgltf_data), read-only input of an import.          *)
(* A null pointer is the empty sequence, a non-null pointer a sequence of  *)
(* one element.                                                            *)

Null == << >>
Ptr(x) == << x >>

\* uint32_t: a 32-bit unsigned value is the pair << high half, low half >> of
\* its 16-bit halves.  A cgltf_size (64 bits) is held as its low 32 bits in
\* the same form, the only bits that uint32_t(...) keeps of a sum or product.
U32Of(n) == << (n \div 65536) % 65536, n % 65536 >>
Add32(a, b) ==
    << (a[1] + b[1] + (a[2] + b[2]) \div 65536) % 65536, (a[2] + b[2]) % 65536 >>
\* The bytes of a value, lowest first.
Bytes32(a) == << a[2] % 256, a[2] \div 256, a[1] % 256, a[1] \div 256 >>
\* The low 32 bits of the sums of the byte products, with carries c1..c3.
CarryProducts(x, y, c1, c2, c3) ==
    << ((x[1] * y[4] + x[2] * y[3] + x[3] * y[2] + x[4] * y[1] + c3) % 256) * 256
           + ((x[1] * y[3] + x[2] * y[2] + x[3] * y[1] + c2) % 256),
       ((x[1] * y[2] + x[2] * y[1] + c1) % 256) * 256 + ((x[1] * y[1]) % 256) >>
Mul32(a, b) ==
    LET x == Bytes32(a)
        y == Bytes32(b)
        c1 == (x[1] * y[1]) \div 256
        c2 == (x[1] * y[2] + x[2] * y[1] + c1) \div 256
        c3 == (x[1] * y[3] + x[2] * y[2] + x[3] * y[1] + c2) \div 256
    IN  CarryProducts(x, y, c1, c2, c3)
\* n - 1 in unsigned arithmetic: 0 wraps to the largest value.
Pred32(n) == IF n = 0 THEN << 65535, 65535 >> ELSE U32Of(n - 1)

\* cgltf_accessor with its buffer view and buffer flattened into it.  count
\* and stride are integers; offset, view_offset and buffer_size are the low
\* 32 bits of the cgltf_size.
AccessorAt(ctype, type, count, stride, offset, viewOffset, bufferSize, sparse, lo, hi) ==
    [component_type |-> ctype, type |-> type, count |-> count, stride |-> stride,
     offset |-> offset, view_offset |-> viewOffset, uri |-> "buffer0", buffer_size |-> bufferSize,
     is_sparse |-> sparse, min |-> lo, max |-> hi]

\* An accessor into a buffer of 4096 bytes.
Accessor(ctype, type, count, stride, offset, viewOffset, sparse, lo, hi) ==
    AccessorAt(ctype, type, count, stride, U32Of(offset), U32Of(viewOffset), U32Of(4096), sparse, lo, hi)

\* cgltf_attribute
Attribute(type, index, data) == [type |-> type, index |-> index, data |-> data]

\* cgltf_primitive
Prim(type, indices, attributes, material) ==
    [type |-> type, indices |-> indices, attributes |-> attributes, material |-> material]

FloatVec3(count, offset, lo, hi) == Accessor("r_32f", "vec3", count, 12, offset, 0, FALSE, lo, hi)
\* Two floats of an interleaved view of 20 bytes per vertex.
FloatVec2(count, offset) == Accessor("r_32f", "vec2", count, 20, offset, 64, FALSE, << 0, 0 >>, << 0, 0 >>)
IndexAccessor(ctype, stride) == Accessor(ctype, "scalar", 6, stride, 0, 128, FALSE, << 0, 0 >>, << 0, 0 >>)

\* Attributes of count vertices.
Position(count, lo, hi) == Attribute("position", 0, FloatVec3(count, 0, lo, hi))
Normal(count) == Attribute("normal", 0, FloatVec3(count, 48, << 0, 0 >>, << 0, 0 >>))
Tangent(count) ==
    Attribute("tangent", 0, Accessor("r_32f", "vec4", count, 16, 96, 0, FALSE, << 0, 0 >>, << 0, 0 >>))
Texcoord(set, count) == Attribute("texcoord", set, FloatVec2(count, 32 * set))
Color(count) ==
    Attribute("color", 0, Accessor("r_8u", "vec4", count, 16, 0, 256, FALSE, << 0, 0 >>, << 0, 0 >>))

\* Two position attributes: three vertices in [1,2]x[1,3], four in [-1,1]x[0,1].
BoxA == Position(3, << 1, 1 >>, << 2, 3 >>)
BoxB == Position(4, << -1, 0 >>, << 1, 1 >>)
\* A position attribute of 400 million vertices at byte 0xFFFFFFF0 + 64 of a
\* buffer of 0x140000000 bytes.
BoxFar ==
    Attribute("position", 0,
              AccessorAt("r_32f", "vec3", 400000000, 12, << 65535, 65520 >>, U32Of(64), << 16384, 0 >>,
                         FALSE, << -1, 0 >>, << 1, 1 >>))

\* cgltf_texture_view, cgltf_texture, cgltf_sampler (GL enums).
TexView(texture, texcoord, transform) ==
    [texture |-> texture, texcoord |-> texcoord, has_transform |-> transform]
NoTexView == TexView(Null, 0, FALSE)
Texture(image, sampler) == [image |-> image, sampler |-> sampler]
Image(uri) == [uri |-> uri, mime_type |-> "image/png"]
Sampler(ws, wt, mag, min) == [wrap_s |-> ws, wrap_t |-> wt, mag_filter |-> mag, min_filter |-> min]

\* cgltf_material
Material(base, mr, normal, occlusion, emissive, unlit) ==
    [base_color_texture |-> base, metallic_roughness_texture |-> mr,
     normal_texture |-> normal, occlusion_texture |-> occlusion,
     emissive_texture |-> emissive, unlit |-> unlit, double_sided |-> FALSE,
     alpha_mode |-> "opaque", has_pbr_specular_glossiness |-> FALSE]

\* The materials of every document: material 1 has a base-colour map, a
\* metallic-roughness map and a normal map (images, no sampler) on texcoord
\* set 0; material 2 has a normal map whose texture has no image and an
\* occlusion map on set 0, and an emissive map with a sampler on set 1.
Materials ==
    << Material(TexView(Ptr(Texture(Ptr(Image("base.png")), Null)), 0, FALSE),
                TexView(Ptr(Texture(Ptr(Image("rough.png")), Null)), 0, FALSE),
                TexView(Ptr(Texture(Ptr(Image("bump.png")), Null)), 0, FALSE),
                NoTexView, NoTexView, FALSE),
       Material(NoTexView, NoTexView,
                TexView(Ptr(Texture(Null, Null)), 0, FALSE),
                TexView(Ptr(Texture(Ptr(Image("ao.png")), Null)), 0, FALSE),
                TexView(Ptr(Texture(Ptr(Image("glow.png")),
                                    Ptr(Sampler(33071, 33648, 9728, 9729)))), 1, TRUE),
                FALSE) >>

\* The mesh lists documents draw from (cgltf_data::meshes).  A mesh is its
\* list of primitives; material 0 is the null material.
MeshLibs ==
    << \* 1: well-formed primitives sharing materials
       << << Prim("triangles", Null, << BoxA >>, 1),
             Prim("triangles", Ptr(IndexAccessor("r_8u", 1)), << BoxB, Normal(4), Texcoord(0, 4) >>, 1) >>,
          << Prim("lines", Ptr(IndexAccessor("r_16u", 2)), << BoxA, Color(3) >>, 1),
             Prim("triangles", Ptr(IndexAccessor("r_32u", 4)),
                  << Texcoord(1, 4), BoxB, Tangent(4), Texcoord(0, 4) >>, 2) >> >>,
       \* 2: primitives without a material
       << << Prim("triangles", Null, << BoxA >>, 0),
             Prim("points", Ptr(IndexAccessor("r_16u", 2)), << BoxFar >>, 0) >>,
          << Prim("triangles", Null, << BoxA, Color(3) >>, 0),
             Prim("triangles", Null, << Normal(4), BoxB >>, 0) >> >>,
       \* 3: an unrecognized index type; a texcoord of unsupported element type
       << << Prim("triangles", Null, << Texcoord(0, 4), BoxB >>, 1),
             Prim("triangles", Ptr(IndexAccessor("r_32f", 4)), << BoxA >>, 1) >>,
          << Prim("triangles", Null,
                  << BoxA, Attribute("texcoord", 0, Accessor("r_32u", "vec2", 3, 8, 0, 64, FALSE,
                                                             << 0, 0 >>, << 0, 0 >>)) >>, 1),
             Prim("triangles", Null, << BoxB >>, 1) >> >>,
       \* 4: an unsupported primitive type; a sparse accessor; an unrecognized semantic
       << << Prim("triangle_fan", Null, << BoxA >>, 1),
             Prim("triangles", Null,
                  << Attribute("position", 0, Accessor("r_32f", "vec3", 3, 12, 0, 0, TRUE,
                                                       << 0, 0 >>, << 1, 1 >>)) >>, 0) >>,
          << Prim("triangles", Ptr(IndexAccessor("r_16u", 2)),
                  << BoxB, Attribute("invalid", 0, FloatVec3(4, 0, << 0, 0 >>, << 0, 0 >>)) >>, 2) >> >> >>

\* The skin lists documents draw from (cgltf_data::skins): a skin is its joint
\* node list.
SkinLibs ==
    { << << 2, 1 >> >>,
      << << 1 >>, << 3, 3 >> >> }

NoSkin == [n \in Nodes |-> 0]
NoMesh == [n \in Nodes |-> 0]
AllIdentity == [n \in Nodes |-> IdentityMat]
Detached == [n \in Nodes |-> -1]

\* parent[n]: 0 when n is a root of the selected scene, -1 when n is a root
\* that is in no scene, otherwise the node that lists n among its children.
RECURSIVE Rooted(_, _, _)
Rooted(parent, n, fuel) ==
    \/ parent[n] <= 0
    \/ fuel > 0 /\ Rooted(parent, parent[n], fuel - 1)

Hierarchies ==
    { p \in [Nodes -> -1 .. MaxNodes] : \A n \in Nodes : p[n] # n /\ Rooted(p, n, MaxNodes) }
Flat == [n \in Nodes |-> 0]
Chain == [n \in Nodes |-> n - 1]
\* Each node is a root or the child of the next node of the document.
Upward == { p \in Hierarchies : \A n \in Nodes : p[n] \in {-1, 0, n + 1} }

Doc(hasScene, parent, mesh, skin, xform, lib, skins) ==
    [hasScene |-> hasScene, parent |-> parent, mesh |-> mesh, skin |-> skin,
     xform |-> xform, lib |-> lib, skins |-> skins]

\* Any hierarchy, no mesh, no skin.
DocsTree == { Doc(TRUE, p, NoMesh, NoSkin, AllIdentity, 1, << >>) : p \in Hierarchies }
\* Any assignment of the meshes of a library to the nodes.
DocsMesh ==
    { Doc(TRUE, p, m, NoSkin, AllIdentity, l, << >>) :
        p \in {Flat, Chain}, m \in [Nodes -> 0 .. 2], l \in DOMAIN MeshLibs }
\* Any assignment of local transforms; every node carries mesh 1 of library 1.
DocsBox ==
    { Doc(TRUE, p, [n \in Nodes |-> 1], NoSkin, x, 1, << >>) :
        p \in {Flat, Chain}, x \in [Nodes -> Transforms] }
\* Skins over hierarchies with unreachable nodes and late joints.
DocsSkin ==
    UNION { { Doc(TRUE, p, m, s, AllIdentity, 2, k) :
                p \in Upward, s \in [Nodes -> 0 .. Len(k)], m \in {NoMesh, [n \in Nodes |-> 1]} } :
            k \in SkinLibs }
\* Skins next to a primitive that fails to build: every node carries mesh 1 of
\* library 3.
DocsSkinError ==
    UNION { { Doc(TRUE, p, [n \in Nodes |-> 1], s, AllIdentity, 3, k) :
                p \in Upward, s \in {NoSkin, [n \in Nodes |-> 1]} } :
            k \in SkinLibs }
\* Documents without any scene (cgltf_data::scene and ::scenes both null).
DocsNoScene ==
    UNION { { Doc(FALSE, Detached, m, s, AllIdentity, 2, k) :
                m \in {NoMesh, [n \in Nodes |-> 1]},
                s \in {NoSkin} \cup {[n \in Nodes |-> 1] : x \in DOMAIN k} } :
            k \in SkinLibs \cup {<< >>} }

\* A scene of one node, which carries a mesh; the other nodes are in no scene.
DocsSingle ==
    { Doc(TRUE, [n \in Nodes |-> IF n = r THEN 0 ELSE -1], [n \in Nodes |-> IF n = r THEN m ELSE 0],
          NoSkin, AllIdentity, l, << >>) :
        r \in Nodes, m \in 1 .. 2, l \in DOMAIN MeshLibs }

Docs == DocsTree \cup DocsMesh \cup DocsBox \cup DocsSkin \cup DocsNoScene \cup DocsSingle
            \cup DocsSkinError
NoDoc == Doc(FALSE, Detached, NoMesh, NoSkin, AllIdentity, 1, << >>)

\* cgltf_node::children and cgltf_scene::nodes, in document order.
Children(d, n) == SeqOfSet({c \in Nodes : d.parent[c] = n})
SceneNodes(d) == Children(d, 0)
Meshes(d) == MeshLibs[d.lib]

----------------------------------------------------------------------------
(* GltfEnums.h, cgltf.h and MaterialGenerator: collaborators of the loader. *)

Result(ok, value) == [ok |-> ok, value |-> value]

\* getPrimitiveType: points, lines and triangles are supported.
getPrimitiveType(type) ==
    CASE type = "points" -> Result(TRUE, "POINTS")
      [] type = "lines" -> Result(TRUE, "LINES")
      [] type = "triangles" -> Result(TRUE, "TRIANGLES")
      [] OTHER -> Result(FALSE, "none")

\* getIndexType: 8-bit indices are widened to 16 bits later.
getIndexType(ctype) ==
    CASE ctype = "r_8u" -> Result(TRUE, "USHORT")
      [] ctype = "r_16u" -> Result(TRUE, "USHORT")
      [] ctype = "r_32u" -> Result(TRUE, "UINT")
      [] OTHER -> Result(FALSE, "none")

\* getVertexAttrType
getVertexAttrType(type) ==
    CASE type = "position" -> Result(TRUE, "POSITION")
      [] type = "texcoord" -> Result(TRUE, "UV0")
      [] type = "color" -> Result(TRUE, "COLOR")
      [] type = "joints" -> Result(TRUE, "BONE_INDICES")
      [] type = "weights" -> Result(TRUE, "BONE_WEIGHTS")
      [] OTHER -> Result(FALSE, "none")

NumComponents(type) ==
    CASE type = "scalar" -> 1 [] type = "vec2" -> 2 [] type = "vec3" -> 3
      [] type = "vec4" -> 4 [] type = "mat2" -> 4 [] type = "mat3" -> 9
      [] type = "mat4" -> 16 [] OTHER -> 0

ComponentSize(ctype) ==
    CASE ctype \in {"r_8", "r_8u"} -> 1 [] ctype \in {"r_16", "r_16u"} -> 2
      [] ctype \in {"r_32u", "r_32f"} -> 4 [] OTHER -> 0

\* cgltf_calc_size
cgltf_calc_size(type, ctype) == NumComponents(type) * ComponentSize(ctype)

\* getElementType: vectors of up to four 8-bit, 16-bit or float components.
getElementType(type, ctype) ==
    IF type \in {"scalar", "vec2", "vec3", "vec4"} /\ ctype \in {"r_8", "r_8u", "r_16", "r_16u", "r_32f"}
    THEN Result(TRUE, << type, ctype >>)
    ELSE Result(FALSE, "none")

\* getWrapMode, getMagFilter, getMinFilter: GL enums to TextureSampler enums.
getWrapMode(gl) ==
    CASE gl = 33071 -> "CLAMP_TO_EDGE" [] gl = 33648 -> "MIRRORED_REPEAT" [] OTHER -> "REPEAT"
getMagFilter(gl) == IF gl = 9728 THEN "NEAREST" ELSE "LINEAR"
getMinFilter(gl) ==
    CASE gl = 9728 -> "NEAREST" [] gl = 9729 -> "LINEAR"
      [] gl = 9984 -> "NEAREST_MIPMAP_NEAREST" [] gl = 9985 -> "LINEAR_MIPMAP_NEAREST"
      [] gl = 9986 -> "NEAREST_MIPMAP_LINEAR" [] OTHER -> "LINEAR_MIPMAP_LINEAR"

\* UvMap: the UV slot of each texcoord set of the source.
UvIndices == {0, 1}
UvSets == {"UNUSED", "UV0", "UV1"}
UvMaps == [UvIndices -> UvSets]
UnusedUvMap == [i \in UvIndices |-> "UNUSED"]

RECURSIVE AssignUv(_, _, _)
\* The texcoord sets of the present texture slots, in slot order, get the
\* UV slots UV0 and UV1 in turn; further sets stay UNUSED.
AssignUv(uvmap, sets, next) ==
    IF sets = << >> THEN uvmap
    ELSE IF uvmap[Head(sets)] # "UNUSED" \/ next > 2 THEN AssignUv(uvmap, Tail(sets), next)
    ELSE AssignUv([uvmap EXCEPT ![Head(sets)] = IF next = 1 THEN "UV0" ELSE "UV1"],
                  Tail(sets), next + 1)

\* MaterialGenerator::getOrCreateMaterial: the UV-slot assignment of a key.
getOrCreateMaterial(matkey) ==
    AssignUv(UnusedUvMap,
             (IF matkey.hasBaseColorTexture THEN << matkey.baseColorUV >> ELSE << >>)
             \o (IF matkey.hasMetallicRoughnessTexture THEN << matkey.metallicRoughnessUV >> ELSE << >>)
             \o (IF matkey.hasNormalTexture THEN << matkey.normalUV >> ELSE << >>)
             \o (IF matkey.hasOcclusionTexture THEN << matkey.aoUV >> ELSE << >>)
             \o (IF matkey.hasEmissiveTexture THEN << matkey.emissiveUV >> ELSE << >>),
             1)

\* Mutant of computeBindingSize: the flat byte length, count elements of
\* stride bytes.
computeBindingSizeFlat(accessor) == Mul32(U32Of(accessor.stride), U32Of(accessor.count))

\* static computeBindingSize: cgltf_size arithmetic, then uint32_t(...).
computeBindingSize(accessor) ==
    Add32(Mul32(U32Of(accessor.stride), Pred32(accessor.count)),
          U32Of(cgltf_calc_size(accessor.type, accessor.component_type)))

\* static computeBindingOffset
computeBindingOffset(accessor) == Add32(accessor.offset, accessor.view_offset)

----------------------------------------------------------------------------
(* The loader's data: FFilamentAsset, the caches, the engine's objects.    *)
(* A handle is the creation number of the object in the import in progress *)
(* (1, 2, ...); 0 is the null pointer / null entity; a negative handle is  *)
(* an object created by an earlier import.                                 *)

EmptyMap == [x \in {} |-> 0]

\* Mutant of NewAsset: the asset is born with a root entity.
NewAssetWithRoot ==
    [mRoot |-> 1, mEntities |-> << 1 >>, mNodeMap |-> EmptyMap, mSkins |-> << >>,
     mMaterialInstances |-> << >>, mBufferBindings |-> << >>, mTextureBindings |-> << >>,
     mBoundingBox |-> EmptyAabb, mPrimMap |-> EmptyMap]

\* new FFilamentAsset(mEngine)
NewAsset ==
    [mRoot |-> 0, mEntities |-> << >>, mNodeMap |-> EmptyMap, mSkins |-> << >>,
     mMaterialInstances |-> << >>, mBufferBindings |-> << >>, mTextureBindings |-> << >>,
     mBoundingBox |-> EmptyAabb, mPrimMap |-> EmptyMap]

\* struct Primitive
Primitive(vertices, indices, aabb) == [vertices |-> vertices, indices |-> indices, aabb |-> aabb]
NewPrimitive == Primitive(0, 0, EmptyAabb)

\* The engine's managers: entities created, transform components,
\* renderable components, index buffers, vertex buffers, material instances.
NewEngine ==
    [entities |-> 0, transforms |-> EmptyMap, renderables |-> EmptyMap,
     indexBuffers |-> << >>, vertexBuffers |-> << >>, instances |-> << >>]

\* struct BufferBinding, value-initialized.
BufferBinding ==
    [uri |-> Null, totalSize |-> U32Of(0), bufferIndex |-> 0, offset |-> U32Of(0), size |-> U32Of(0),
     data |-> FALSE,
     vertexBuffer |-> 0, indexBuffer |-> 0, convertBytesToShorts |-> FALSE,
     generateTrivialIndices |-> FALSE]

\* The address of a source material: null is 0, objects are 8-byte aligned.
MaterialAddress(inputMat) == 8 * inputMat

\* The loader's members that an import step reads and writes.
Loader(res, matCache, meshCache, err, eng) ==
    [res |-> res, matCache |-> matCache, meshCache |-> meshCache, err |-> err, eng |-> eng]

----------------------------------------------------------------------------
(* FAssetLoader::addTextureBinding                                         *)

\* Mutant of addTextureBinding: the source sampler is ignored.
addTextureBindingDefaultSampler(L, materialInstance, parameterName, srcTexture, srgb) ==
    IF srcTexture.image = Null THEN L
    ELSE [L EXCEPT !.res.mTextureBindings =
             Append(@, [uri |-> srcTexture.image[1].uri,
                        mimeType |-> srcTexture.image[1].mime_type,
                        materialInstance |-> materialInstance,
                        materialParameter |-> parameterName,
                        sampler |-> [wrapS |-> "REPEAT", wrapT |-> "REPEAT",
                                     mag |-> "LINEAR", min |-> "LINEAR_MIPMAP_LINEAR"],
                        srgb |-> srgb])]

addTextureBinding(L, materialInstance, parameterName, srcTexture, srgb) ==
    IF srcTexture.image = Null THEN L
    ELSE LET srcSampler == srcTexture.sampler
             dstSampler ==
                 IF srcSampler # Null
                 THEN [wrapS |-> getWrapMode(srcSampler[1].wrap_s),
                       wrapT |-> getWrapMode(srcSampler[1].wrap_t),
                       mag |-> getMagFilter(srcSampler[1].mag_filter),
                       min |-> getMinFilter(srcSampler[1].min_filter)]
                 ELSE [wrapS |-> "REPEAT", wrapT |-> "REPEAT",
                       mag |-> "LINEAR", min |-> "LINEAR_MIPMAP_LINEAR"]
         IN  [L EXCEPT !.res.mTextureBindings =
                 Append(@, [uri |-> srcTexture.image[1].uri,
                            mimeType |-> srcTexture.image[1].mime_type,
                            materialInstance |-> materialInstance,
                            materialParameter |-> parameterName,
                            sampler |-> dstSampler, srgb |-> srgb])]

----------------------------------------------------------------------------
(* FAssetLoader::createMaterialInstance                                    *)

\* MaterialKey of a source material m (the fields that select the variant).
MaterialKey(m, vertexColor) ==
    [doubleSided |-> m.double_sided, unlit |-> m.unlit, hasVertexColors |-> vertexColor,
     hasBaseColorTexture |-> m.base_color_texture.texture # Null,
     hasMetallicRoughnessTexture |-> m.metallic_roughness_texture.texture # Null,
     hasNormalTexture |-> m.normal_texture.texture # Null,
     hasOcclusionTexture |-> m.occlusion_texture.texture # Null,
     hasEmissiveTexture |-> m.emissive_texture.texture # Null,
     baseColorUV |-> m.base_color_texture.texcoord,
     metallicRoughnessUV |-> m.metallic_roughness_texture.texcoord,
     emissiveUV |-> m.emissive_texture.texcoord,
     aoUV |-> m.occlusion_texture.texcoord,
     normalUV |-> m.normal_texture.texcoord,
     hasTextureTransforms |->
         \/ m.base_color_texture.has_transform
         \/ m.metallic_roughness_texture.has_transform
         \/ m.normal_texture.has_transform
         \/ m.occlusion_texture.has_transform
         \/ m.emissive_texture.has_transform]

\* MaterialKey { .unlit = true }
UnlitKey ==
    [doubleSided |-> FALSE, unlit |-> TRUE, hasVertexColors |-> FALSE,
     hasBaseColorTexture |-> FALSE, hasMetallicRoughnessTexture |-> FALSE,
     hasNormalTexture |-> FALSE, hasOcclusionTexture |-> FALSE, hasEmissiveTexture |-> FALSE,
     baseColorUV |-> 0, metallicRoughnessUV |-> 0, emissiveUV |-> 0, aoUV |-> 0, normalUV |-> 0,
     hasTextureTransforms |-> FALSE]

\* Mutant of MatInstanceKey: the vertex-colour bit is left out of the key.
MatInstanceKeyIgnoringColor(inputMat, vertexColor) == MaterialAddress(inputMat)

\* The key of the material-instance cache: ((intptr_t) inputMat) ^ (vertexColor ? 1 : 0).
MatInstanceKey(inputMat, vertexColor) ==
    MaterialAddress(inputMat) + (IF vertexColor THEN 1 ELSE 0)

\* mat->createInstance(); mResult->mMaterialInstances.push_back(mi)
CreateInstance(L, inputMat, matkey) ==
    [L EXCEPT !.eng.instances = Append(@, [material |-> inputMat, key |-> matkey]),
              !.res.mMaterialInstances = Append(@, Len(L.eng.instances) + 1)]

\* Mutant of TextureSlots: the normal map is flagged sRGB.
TextureSlotsNormalSrgb(m, matkey) ==
    (IF matkey.hasBaseColorTexture
     THEN << [name |-> "baseColorMap", view |-> m.base_color_texture, srgb |-> TRUE] >> ELSE << >>)
    \o (IF matkey.hasMetallicRoughnessTexture
        THEN << [name |-> "metallicRoughnessMap", view |-> m.metallic_roughness_texture,
                 srgb |-> FALSE] >> ELSE << >>)
    \o (IF matkey.hasNormalTexture
        THEN << [name |-> "normalMap", view |-> m.normal_texture, srgb |-> TRUE] >> ELSE << >>)
    \o (IF matkey.hasOcclusionTexture
        THEN << [name |-> "occlusionMap", view |-> m.occlusion_texture, srgb |-> FALSE] >>
        ELSE << >>)
    \o (IF matkey.hasEmissiveTexture
        THEN << [name |-> "emissiveMap", view |-> m.emissive_texture, srgb |-> TRUE] >> ELSE << >>)

\* The texture slots of a source material m, in the order the code visits them.
TextureSlots(m, matkey) ==
    (IF matkey.hasBaseColorTexture
     THEN << [name |-> "baseColorMap", view |-> m.base_color_texture, srgb |-> TRUE] >> ELSE << >>)
    \o (IF matkey.hasMetallicRoughnessTexture
        THEN << [name |-> "metallicRoughnessMap", view |-> m.metallic_roughness_texture,
                 srgb |-> FALSE] >> ELSE << >>)
    \o (IF matkey.hasNormalTexture
        THEN << [name |-> "normalMap", view |-> m.normal_texture, srgb |-> FALSE] >> ELSE << >>)
    \o (IF matkey.hasOcclusionTexture
        THEN << [name |-> "occlusionMap", view |-> m.occlusion_texture, srgb |-> FALSE] >>
        ELSE << >>)
    \o (IF matkey.hasEmissiveTexture
        THEN << [name |-> "emissiveMap", view |-> m.emissive_texture, srgb |-> TRUE] >> ELSE << >>)

RECURSIVE AddTextureBindingsStopping(_, _, _)
\* Mutant of AddTextureBindings: a texture without image ends the texture
\* slots of the material.
AddTextureBindingsStopping(L, mi, slots) ==
    IF slots = << >> \/ Head(slots).view.texture[1].image = Null THEN L
    ELSE AddTextureBindingsStopping(
             addTextureBinding(L, mi, Head(slots).name, Head(slots).view.texture[1], Head(slots).srgb),
             mi, Tail(slots))

RECURSIVE AddTextureBindings(_, _, _)
\* The addTextureBinding calls of createMaterialInstance, one per present slot.
AddTextureBindings(L, mi, slots) ==
    IF slots = << >> THEN L
    ELSE AddTextureBindings(
             addTextureBinding(L, mi, Head(slots).name, Head(slots).view.texture[1], Head(slots).srgb),
             mi, Tail(slots))

\* The result of createMaterialInstance: the loader, the instance and what
\* the call leaves in *uvmap.
Instance(L, mi, uvmap) == [L |-> L, mi |-> mi, uvmap |-> uvmap]

\* The default glTF material: an unlit instance, cached under key 0.
CreateDefaultInstance(L) ==
    Instance([CreateInstance(L, 0, UnlitKey) EXCEPT !.matCache = Put(@, 0, Len(L.eng.instances) + 1)],
             Len(L.eng.instances) + 1, getOrCreateMaterial(UnlitKey))

\* An instance of the material of key matkey, with its texture bindings,
\* cached under key.
CreateKeyedInstance(L, inputMat, m, matkey, key) ==
    Instance([AddTextureBindings(CreateInstance(L, inputMat, matkey), Len(L.eng.instances) + 1,
                                 TextureSlots(m, matkey))
                 EXCEPT !.matCache = Put(@, key, Len(L.eng.instances) + 1)],
             Len(L.eng.instances) + 1, getOrCreateMaterial(matkey))

\* On a cache hit *uvmap is not written: the caller's local keeps whatever it
\* held (uninitialized).
createMaterialInstance(L, inputMat, vertexColor, uninitialized) ==
    IF MatInstanceKey(inputMat, vertexColor) \in DOMAIN L.matCache
    THEN Instance(L, L.matCache[MatInstanceKey(inputMat, vertexColor)], uninitialized)
    ELSE IF inputMat = 0 THEN CreateDefaultInstance(L)
    ELSE CreateKeyedInstance(L, inputMat, Materials[inputMat],
                             MaterialKey(Materials[inputMat], vertexColor),
                             MatInstanceKey(inputMat, vertexColor))

----------------------------------------------------------------------------
(* FAssetLoader::createPrimitive                                           *)

\* Mutant of TrivialIndexBinding: the binding is filled like one with source
\* bytes and is not flagged.
TrivialIndexBindingWithSource(indices, vertexCount) ==
    [BufferBinding EXCEPT
        !.uri = Ptr("buffer0"),
        !.data = TRUE,
        !.indexBuffer = indices,
        !.size = Mul32(U32Of(vertexCount), U32Of(4))]

\* The BufferBinding of a primitive without index accessor.
TrivialIndexBinding(indices, vertexCount) ==
    [BufferBinding EXCEPT
        !.indexBuffer = indices,
        !.size = Mul32(U32Of(vertexCount), U32Of(4)),
        !.generateTrivialIndices = TRUE]

\* Mutant of SourceIndexBinding: every index narrower than 32 bits is marked
\* for widening.
SourceIndexBindingWidening16(indices, indicesAccessor) ==
    [BufferBinding EXCEPT
        !.uri = Ptr(indicesAccessor.uri),
        !.totalSize = indicesAccessor.buffer_size,
        !.offset = computeBindingOffset(indicesAccessor),
        !.size = computeBindingSize(indicesAccessor),
        !.data = TRUE,
        !.indexBuffer = indices,
        !.convertBytesToShorts = (indicesAccessor.component_type \in {"r_8u", "r_16u"})]

\* The BufferBinding of a primitive with an index accessor.
SourceIndexBinding(indices, indicesAccessor) ==
    [BufferBinding EXCEPT
        !.uri = Ptr(indicesAccessor.uri),
        !.totalSize = indicesAccessor.buffer_size,
        !.offset = computeBindingOffset(indicesAccessor),
        !.size = computeBindingSize(indicesAccessor),
        !.data = TRUE,
        !.indexBuffer = indices,
        !.convertBytesToShorts = (indicesAccessor.component_type = "r_8u"),
        !.generateTrivialIndices = FALSE]

\* The index buffer of a primitive and its BufferBinding.  state: ok, the
\* loader, the new index buffer.
BuildIndices(L, inPrim) ==
    IF inPrim.indices # Null
    THEN LET indicesAccessor == inPrim.indices[1]
             indexType == getIndexType(indicesAccessor.component_type)
             indices == Len(L.eng.indexBuffers) + 1
         IN  IF ~indexType.ok THEN [ok |-> FALSE, L |-> L, indices |-> 0]
             ELSE [ok |-> TRUE, indices |-> indices,
                   L |-> [L EXCEPT
                       !.eng.indexBuffers =
                           Append(@, [indexCount |-> indicesAccessor.count,
                                      bufferType |-> indexType.value]),
                       !.res.mBufferBindings =
                           Append(@, SourceIndexBinding(indices, indicesAccessor))]]
    ELSE LET vertexCount == inPrim.attributes[1].data.count
             indices == Len(L.eng.indexBuffers) + 1
         IN  [ok |-> TRUE, indices |-> indices,
              L |-> [L EXCEPT
                  !.eng.indexBuffers = Append(@, [indexCount |-> vertexCount, bufferType |-> "UINT"]),
                  !.res.mBufferBindings = Append(@, TrivialIndexBinding(indices, vertexCount))]]

RECURSIVE DeclareAttributes(_, _, _, _)
\* The first loop over the attributes: the vertex buffer's layout and the
\* primitive's bounding box.  vb: ok, layout, vertexCount, aabb.  slot counts
\* from 0 as in the code.
DeclareAttributes(inPrim, uvmap, slot, vb) ==
    IF slot >= Len(inPrim.attributes) THEN vb
    ELSE
    LET inputAttribute == inPrim.attributes[slot + 1]
        inputAccessor == inputAttribute.data
        semantic == getVertexAttrType(inputAttribute.type)
        uvset == uvmap[inputAttribute.index]
        atype == getElementType(inputAccessor.type, inputAccessor.component_type)
        bounded == IF inputAttribute.type = "position"
                   THEN [min |-> VMin(vb.aabb.min, inputAccessor.min),
                         max |-> VMax(vb.aabb.max, inputAccessor.max)]
                   ELSE vb.aabb
    IN  IF inputAttribute.type = "normal"
        THEN DeclareAttributes(inPrim, uvmap, slot + 1,
                 [vb EXCEPT !.layout = @ \cup {[attribute |-> "TANGENTS", slot |-> slot]}])
        ELSE IF inputAttribute.type = "tangent"
        THEN DeclareAttributes(inPrim, uvmap, slot + 1, vb)
        ELSE IF ~semantic.ok THEN [vb EXCEPT !.ok = FALSE]
        ELSE IF inputAttribute.type = "texcoord" /\ uvset = "UNUSED"
        THEN DeclareAttributes(inPrim, uvmap, slot + 1, vb)
        ELSE IF ~atype.ok \/ inputAccessor.is_sparse
        THEN [vb EXCEPT !.ok = FALSE, !.vertexCount = inputAccessor.count, !.aabb = bounded]
        ELSE DeclareAttributes(inPrim, uvmap, slot + 1,
                 [vb EXCEPT !.vertexCount = inputAccessor.count, !.aabb = bounded,
                            !.layout = @ \cup
                                {[attribute |-> IF inputAttribute.type = "texcoord"
                                                THEN uvset ELSE semantic.value,
                                  slot |-> slot]}])

\* Mutant of Bound: only tangents and unused texcoord sets are left out.
BoundWithNormals(inputAttribute, uvmap) ==
    /\ inputAttribute.type # "tangent"
    /\ ~(inputAttribute.type = "texcoord" /\ uvmap[inputAttribute.index] = "UNUSED")

\* Whether the second loop emits a BufferBinding for an attribute.
Bound(inputAttribute, uvmap) ==
    /\ inputAttribute.type \notin {"normal", "tangent"}
    /\ ~(inputAttribute.type = "texcoord" /\ uvmap[inputAttribute.index] = "UNUSED")

RECURSIVE BindAttributes(_, _, _, _)
\* The second loop over the attributes: one BufferBinding per bound attribute.
BindAttributes(inPrim, uvmap, vertices, slot) ==
    IF slot >= Len(inPrim.attributes) THEN << >>
    ELSE LET inputAttribute == inPrim.attributes[slot + 1]
             inputAccessor == inputAttribute.data
         IN  (IF Bound(inputAttribute, uvmap)
              THEN << [BufferBinding EXCEPT
                          !.uri = Ptr(inputAccessor.uri),
                          !.totalSize = inputAccessor.buffer_size,
                          !.bufferIndex = slot,
                          !.offset = computeBindingOffset(inputAccessor),
                          !.size = computeBindingSize(inputAccessor),
                          !.data = TRUE,
                          !.vertexBuffer = vertices] >>
              ELSE << >>)
             \o BindAttributes(inPrim, uvmap, vertices, slot + 1)

\* The result of createPrimitive: ok, the loader and *outPrim.
Built(ok, L, outPrim) == [ok |-> ok, L |-> L, outPrim |-> outPrim]

\* createPrimitive after the index buffer (ib) and the first loop (vb).
FinishPrimitive(L, inPrimId, inPrim, outPrim, uvmap, ib, vb) ==
    IF ~ib.ok THEN Built(FALSE, L, outPrim)
    ELSE IF ~vb.ok THEN Built(FALSE, ib.L, [outPrim EXCEPT !.aabb = vb.aabb])
    ELSE Built(TRUE,
               [ib.L EXCEPT
                   !.eng.vertexBuffers =
                       Append(@, [bufferCount |-> Len(inPrim.attributes),
                                  vertexCount |-> vb.vertexCount, layout |-> vb.layout]),
                   !.res.mPrimMap = Put(@, inPrimId, Len(L.eng.vertexBuffers) + 1),
                   !.res.mBufferBindings =
                       @ \o BindAttributes(inPrim, uvmap, Len(L.eng.vertexBuffers) + 1, 0)],
               Primitive(Len(L.eng.vertexBuffers) + 1, ib.indices, vb.aabb))

\* inPrimId is the identity of inPrim (its mesh and its position in the
\* mesh), the key of mPrimMap.
createPrimitive(L, inPrimId, inPrim, outPrim, uvmap) ==
    FinishPrimitive(L, inPrimId, inPrim, outPrim, uvmap, BuildIndices(L, inPrim),
                    DeclareAttributes(inPrim, uvmap, 0,
                        [ok |-> TRUE, layout |-> {}, vertexCount |-> 0, aabb |-> outPrim.aabb]))

\* FAssetLoader::primitiveHasVertexColor
primitiveHasVertexColor(inPrim) ==
    \E slot \in DOMAIN inPrim.attributes : inPrim.attributes[slot].type = "color"

----------------------------------------------------------------------------
(* FAssetLoader::createRenderable                                          *)

\* RenderableManager::Builder(nprims): no geometry, no material set.
NewBuilder(nprims) ==
    [geometry |-> [i \in 1 .. nprims |-> [set |-> FALSE, type |-> "none", vertices |-> 0, indices |-> 0]],
     materials |-> [i \in 1 .. nprims |-> 0]]

\* The values an uninitialized PrimitiveType may hold.
PrimitiveTypes == {"POINTS", "LINES", "TRIANGLES", "garbage"}

\* The state of the loop over the primitives: the loader, the builder and the
\* object-space box of the renderable.
LoopState(L, builder, aabb) == [L |-> L, builder |-> builder, aabb |-> aabb]

\* The rest of one iteration, after createPrimitive (built) has run or was
\* skipped: a failed primitive sets mError and gets no geometry.
AfterPrimitive(r, meshId, index, primType, mi, built) ==
    IF ~built.ok
    THEN LoopState([built.L EXCEPT !.meshCache[meshId][index] = built.outPrim, !.err = TRUE],
                   [r.builder EXCEPT !.materials[index] = mi], r.aabb)
    ELSE LoopState([built.L EXCEPT !.meshCache[meshId][index] = built.outPrim],
                   [r.builder EXCEPT
                       !.materials[index] = mi,
                       !.geometry[index] = [set |-> TRUE, type |-> primType,
                                            vertices |-> built.outPrim.vertices,
                                            indices |-> built.outPrim.indices]],
                   [min |-> VMin(built.outPrim.aabb.min, r.aabb.min),
                    max |-> VMax(built.outPrim.aabb.max, r.aabb.max)])

\* The rest of one iteration, after createMaterialInstance (m) has run.
AfterMaterial(r, meshId, index, inputPrim, primType, m) ==
    AfterPrimitive(r, meshId, index, primType, m.mi,
        IF m.L.meshCache[meshId][index].vertices = 0
        THEN createPrimitive(m.L, << meshId, index >>, inputPrim, m.L.meshCache[meshId][index],
                             m.uvmap)
        ELSE Built(TRUE, m.L, m.L.meshCache[meshId][index]))

\* One iteration of the loop.  uninitializedUv and uninitializedType are what
\* the uninitialized locals uvmap and primType hold.
PrimitiveStep(r, meshId, index, inputPrim, uninitializedUv, uninitializedType) ==
    AfterMaterial(r, meshId, index, inputPrim,
        IF getPrimitiveType(inputPrim.type).ok THEN getPrimitiveType(inputPrim.type).value
        ELSE uninitializedType,
        createMaterialInstance(r.L, inputPrim.material, primitiveHasVertexColor(inputPrim),
                               uninitializedUv))

RECURSIVE PrimitiveLoopStopping(_, _, _, _, _, _)
\* Mutant of PrimitiveLoop: the loop ends at the first error (break instead
\* of continue).
PrimitiveLoopStopping(r, mesh, meshId, index, uvmaps, junkType) ==
    IF index > Len(mesh) \/ r.L.err THEN r
    ELSE PrimitiveLoopStopping(PrimitiveStep(r, meshId, index, mesh[index], uvmaps[index], junkType),
                               mesh, meshId, index + 1, uvmaps, junkType)

RECURSIVE PrimitiveLoop(_, _, _, _, _, _)
\* The loop over the primitives of a mesh; index counts from 1.
PrimitiveLoop(r, mesh, meshId, index, uvmaps, junkType) ==
    IF index > Len(mesh) THEN r
    ELSE PrimitiveLoop(PrimitiveStep(r, meshId, index, mesh[index], uvmaps[index], junkType),
                       mesh, meshId, index + 1, uvmaps, junkType)

\* Mutant of BuildRenderable: the renderable component is attached to the
\* entity of the parent.
BuildRenderableOnParent(r, worldTransform, entity, skinning) ==
    [r.L EXCEPT
        !.res.mBoundingBox = [min |-> VMin(@.min, Apply(worldTransform, r.aabb.min)),
                              max |-> VMax(@.max, Apply(worldTransform, r.aabb.max))],
        !.eng.renderables =
            Put(@, r.L.eng.transforms[entity].parent,
                [geometry |-> r.builder.geometry, materials |-> r.builder.materials,
                 boundingBox |-> r.aabb, skinning |-> skinning])]

\* createRenderable after the loop over the primitives (r): the world-space
\* box and the renderable component.
BuildRenderable(r, worldTransform, entity, skinning) ==
    [r.L EXCEPT
        !.res.mBoundingBox = [min |-> VMin(@.min, Apply(worldTransform, r.aabb.min)),
                              max |-> VMax(@.max, Apply(worldTransform, r.aabb.max))],
        !.eng.renderables =
            Put(@, entity, [geometry |-> r.builder.geometry, materials |-> r.builder.materials,
                            boundingBox |-> r.aabb, skinning |-> skinning])]

\* The list of Primitive of a mesh: the cached one, or a new one.
FindMesh(L, meshId, nprims) ==
    IF meshId \notin DOMAIN L.meshCache
    THEN [L EXCEPT !.meshCache = Put(@, meshId, [i \in 1 .. nprims |-> NewPrimitive])]
    ELSE L

createRenderable(L, d, node, entity, uvmaps, junkType) ==
    BuildRenderable(
        PrimitiveLoop(LoopState(FindMesh(L, d.mesh[node], Len(Meshes(d)[d.mesh[node]])),
                                NewBuilder(Len(Meshes(d)[d.mesh[node]])), EmptyAabb),
                      Meshes(d)[d.mesh[node]], d.mesh[node], 1, uvmaps, junkType),
        L.eng.transforms[entity].world, entity,
        IF d.skin[node] # 0 THEN Ptr(Len(d.skins[d.skin[node]])) ELSE Null)

----------------------------------------------------------------------------
(* FAssetLoader::createEntity: one call, without the calls for the children. *)

\* The entity, its transform component, the entity list and the node map.
AddEntity(L, node, entity, parent, localTransform) ==
    [L EXCEPT
        !.eng.entities = entity,
        !.eng.transforms =
            Put(@, entity, [parent |-> parent, local |-> localTransform,
                            world |-> Compose(L.eng.transforms[parent].world, localTransform)]),
        !.res.mEntities = Append(@, entity),
        !.res.mNodeMap = Put(@, node, entity)]

createEntity(L, d, node, parent, uvmaps, junkType) ==
    IF d.mesh[node] # 0
    THEN createRenderable(AddEntity(L, node, L.eng.entities + 1, parent, d.xform[node]),
                          d, node, L.eng.entities + 1, uvmaps, junkType)
    ELSE AddEntity(L, node, L.eng.entities + 1, parent, d.xform[node])

\* The calls createEntity makes for the children of node, in order.
ChildCalls(d, node, entity) ==
    [i \in DOMAIN Children(d, node) |-> << Children(d, node)[i], entity >>]

\* Mutant of PendingCalls: the children are visited after the pending calls
\* (breadth first).
PendingCallsAfter(d, node, entity, pending) == pending \o ChildCalls(d, node, entity)

\* The pending calls once createEntity(node) has run up to its loop over the
\* children: the calls for the children come before the calls that were
\* pending (the recursion returns to them afterwards).
PendingCalls(d, node, entity, pending) == ChildCalls(d, node, entity) \o pending

----------------------------------------------------------------------------
(* FAssetLoader::importSkinningData                                        *)

\* Mutant of At: operator[] instead of at, a missing node reads as the null
\* entity.
AtInserting(nodeMap, node) ==
    Result(TRUE, IF node \in DOMAIN nodeMap THEN nodeMap[node] ELSE 0)

\* nodeMap.at(node): throws std::out_of_range (ok is FALSE) for a node that
\* has no entry.
At(nodeMap, node) ==
    IF node \in DOMAIN nodeMap THEN Result(TRUE, nodeMap[node]) ELSE Result(FALSE, 0)

\* Mutant of StoreJoint: the joints are stored in reverse order.
StoreJointReversed(joints, i, entity) == [joints EXCEPT ![Len(joints) + 1 - i] = entity]

\* dstSkin.joints[i] = entity
StoreJoint(joints, i, entity) == [joints EXCEPT ![i] = entity]

RECURSIVE ResolveJoints(_, _, _, _)
\* The loop over the joints.  When at throws, the joints resolved so far
\* stay and ok is FALSE.
ResolveJoints(nodeMap, srcJoints, i, joints) ==
    IF i > Len(srcJoints) THEN [ok |-> TRUE, joints |-> joints]
    ELSE IF ~At(nodeMap, srcJoints[i]).ok THEN [ok |-> FALSE, joints |-> joints]
    ELSE ResolveJoints(nodeMap, srcJoints, i + 1,
                       StoreJoint(joints, i, At(nodeMap, srcJoints[i]).value))

\* Returns ok (FALSE: the exception left the function) and dstSkin.
importSkinningData(res, dstSkin, srcSkin) ==
    LET r == ResolveJoints(res.mNodeMap, srcSkin, 1, [i \in 1 .. Len(srcSkin) |-> 0])
    IN  [ok |-> r.ok, dstSkin |-> [dstSkin EXCEPT !.joints = r.joints]]

RECURSIVE CollectTargets(_, _, _)
\* For each skin, the renderables it affects: the loop over srcAsset->nodes.
\* mNodeMap[&node] inserts a null entity for a node that has no entry.
CollectTargets(res, d, node) ==
    IF node > MaxNodes THEN res
    ELSE IF d.skin[node] = 0 THEN CollectTargets(res, d, node + 1)
    ELSE LET nodeMap == IF node \in DOMAIN res.mNodeMap THEN res.mNodeMap
                        ELSE Put(res.mNodeMap, node, 0)
         IN  CollectTargets(
                 [res EXCEPT !.mNodeMap = nodeMap,
                             !.mSkins[d.skin[node]].targets = Append(@, nodeMap[node])],
                 d, node + 1)

----------------------------------------------------------------------------
(* The state of the loader and of the import call in progress.             *)

VARIABLES
    pc,                 \* where the import call stands
    doc,                \* the parsed document (cgltf_data) of the call
    stack,              \* pending createEntity calls: << node, parent entity >>
    skinIndex,          \* the loop variable of the skin import
    retval,             \* what the last call returned: "none", "null", "asset"
    errored,            \* history: mError was set when the traversal ended
    mResult,            \* FFilamentAsset* : Null or Ptr(asset)
    mMatInstanceCache,  \* cache key -> material instance
    mMeshCache,         \* mesh -> list of Primitive
    mError,
    mEngine             \* the engine's objects created by this import

vars == << pc, doc, stack, skinIndex, retval, errored, mResult, mMatInstanceCache,
           mMeshCache, mError, mEngine >>

Init ==
    /\ pc = "idle"
    /\ doc = NoDoc
    /\ stack = << >>
    /\ skinIndex = 0
    /\ retval = "none"
    /\ errored = FALSE
    /\ mResult = Null
    /\ mMatInstanceCache = EmptyMap
    /\ mMeshCache = EmptyMap
    /\ mError = FALSE
    /\ mEngine = NewEngine

\* The loader's members as one record, and back.
Members == Loader(mResult[1], mMatInstanceCache, mMeshCache, mError, mEngine)
Store(L) ==
    /\ mResult' = Ptr(L.res)
    /\ mMatInstanceCache' = L.matCache
    /\ mMeshCache' = L.meshCache
    /\ mError' = L.err
    /\ mEngine' = L.eng

\* Objects of an earlier import seen from a new one: their handles and
\* addresses differ from every handle and address of the new import (negative
\* numbers); the null address stays 0.
Stale(h) == IF h > 0 THEN -h ELSE h
StalePrimitive(p) == Primitive(Stale(p.vertices), Stale(p.indices), p.aabb)
Newest(f, k) == CHOOSE x \in DOMAIN f : Stale(x) = k /\ \A y \in DOMAIN f : Stale(y) = k => y <= x
StaleMatCache(cache) ==
    [k \in {Stale(x) : x \in DOMAIN cache} |-> Stale(cache[Newest(cache, k)])]
StaleMeshCache(cache) ==
    [k \in {Stale(x) : x \in DOMAIN cache} |->
        [i \in DOMAIN cache[Newest(cache, k)] |-> StalePrimitive(cache[Newest(cache, k)][i])]]

\* createAsset up to the traversal: the asset, the scene, the root entity.
BeginAsset(d) ==
    /\ doc' = d
    /\ skinIndex' = 0
    /\ errored' = FALSE
    /\ mMatInstanceCache' = StaleMatCache(mMatInstanceCache)
    /\ mMeshCache' = StaleMeshCache(mMeshCache)
    /\ UNCHANGED mError
    /\ IF ~d.hasScene
       THEN /\ mResult' = Ptr(NewAsset)
            /\ mEngine' = NewEngine
            /\ stack' = << >>
            /\ pc' = "returned"
            /\ retval' = "asset"
       ELSE /\ mResult' = Ptr([NewAsset EXCEPT !.mRoot = 1])
            /\ mEngine' = [NewEngine EXCEPT
                   !.entities = 1,
                   !.transforms = Put(@, 1, [parent |-> 0, local |-> IdentityMat,
                                             world |-> IdentityMat])]
            /\ stack' = [i \in DOMAIN SceneNodes(d) |-> << SceneNodes(d)[i], 1 >>]
            /\ pc' = "traverse"
            /\ retval' = "none"

\* cgltf_parse fails: the call returns nullptr and touches nothing else.
ParseFailure ==
    /\ pc = "idle"
    /\ pc' = "returned"
    /\ retval' = "null"
    /\ UNCHANGED << doc, stack, skinIndex, errored, mResult, mMatInstanceCache, mMeshCache,
                    mError, mEngine >>

createAssetFromJson ==
    /\ pc = "idle"
    /\ \E d \in Docs : BeginAsset(d)

createAssetFromBinary ==
    /\ pc = "idle"
    /\ \E d \in Docs : BeginAsset(d)

\* What the uninitialized UvMap of each primitive of a mesh may hold; it is
\* read only for texcoord attributes.
HasTexcoord(inPrim) == \E slot \in DOMAIN inPrim.attributes : inPrim.attributes[slot].type = "texcoord"
UninitializedUvMaps(mesh) ==
    { u \in [DOMAIN mesh -> UvMaps] : \A i \in DOMAIN mesh : ~HasTexcoord(mesh[i]) => u[i] = UnusedUvMap }
\* What the uninitialized primType may hold; it is read only when
\* getPrimitiveType fails.
UninitializedTypes(mesh) ==
    IF \E i \in DOMAIN mesh : ~getPrimitiveType(mesh[i].type).ok THEN PrimitiveTypes ELSE {"garbage"}
MeshOf(d, node) == IF d.mesh[node] = 0 THEN << >> ELSE Meshes(d)[d.mesh[node]]

\* One call of createEntity: the next pending call runs, the calls for its
\* children become the next pending ones (depth first).
VisitNode ==
    /\ pc = "traverse"
    /\ stack # << >>
    /\ LET node == Head(stack)[1]
           parent == Head(stack)[2]
       IN  /\ \E uvmaps \in UninitializedUvMaps(MeshOf(doc, node)),
                 junkType \in UninitializedTypes(MeshOf(doc, node)) :
                   Store(createEntity(Members, doc, node, parent, uvmaps, junkType))
           /\ stack' = PendingCalls(doc, node, mEngine.entities + 1, Tail(stack))
    /\ UNCHANGED << pc, doc, skinIndex, retval, errored >>

\* if (mError) { delete mResult; mResult = nullptr; }  The statement that
\* follows dereferences mResult, so with mError set the behaviour is
\* undefined: a build may keep the branch (and then dereference null) or drop
\* it as unreachable (and then go on with the asset).
CheckError ==
    /\ pc = "traverse"
    /\ stack = << >>
    /\ pc' = "resize"
    /\ errored' = mError
    /\ \/ /\ mError
          /\ mResult' = Null
       \/ /\ mError
          /\ UNCHANGED mResult
       \/ /\ ~mError
          /\ UNCHANGED mResult
    /\ UNCHANGED << doc, stack, skinIndex, retval, mMatInstanceCache, mMeshCache, mError, mEngine >>

\* mResult->mSkins.resize(srcAsset->skins_count)
ResizeSkins ==
    /\ pc = "resize"
    /\ IF mResult = Null
       THEN /\ pc' = "crashed"
            /\ UNCHANGED << mResult, skinIndex >>
       ELSE /\ pc' = "skins"
            /\ skinIndex' = 1
            /\ mResult' = Ptr([mResult[1] EXCEPT
                   !.mSkins = [i \in DOMAIN doc.skins |-> [joints |-> << >>, targets |-> << >>]]])
    /\ UNCHANGED << doc, stack, retval, errored, mMatInstanceCache, mMeshCache, mError, mEngine >>

\* One iteration of the loop over the skins.
ImportSkin ==
    /\ pc = "skins"
    /\ skinIndex <= Len(doc.skins)
    /\ LET r == importSkinningData(mResult[1], mResult[1].mSkins[skinIndex], doc.skins[skinIndex])
       IN  /\ mResult' = Ptr([mResult[1] EXCEPT !.mSkins[skinIndex] = r.dstSkin])
           /\ pc' = IF r.ok THEN "skins" ELSE "threw"
           /\ skinIndex' = IF r.ok THEN skinIndex + 1 ELSE skinIndex
    /\ UNCHANGED << doc, stack, retval, errored, mMatInstanceCache, mMeshCache, mError, mEngine >>

\* The loop over the nodes that builds the target lists.
BuildTargets ==
    /\ pc = "skins"
    /\ skinIndex > Len(doc.skins)
    /\ mResult' = Ptr(CollectTargets(mResult[1], doc, 1))
    /\ pc' = "cleanup"
    /\ UNCHANGED << doc, stack, skinIndex, retval, errored, mMatInstanceCache, mMeshCache,
                    mError, mEngine >>

\* The end of createAsset and the return of mResult to the caller.
Cleanup ==
    /\ pc = "cleanup"
    /\ mMatInstanceCache' = EmptyMap
    /\ mMeshCache' = EmptyMap
    /\ mError' = FALSE
    /\ pc' = "returned"
    /\ retval' = IF mResult = Null THEN "null" ELSE "asset"
    /\ UNCHANGED << doc, stack, skinIndex, errored, mResult, mEngine >>

\* The caller is done with the result and destroys the asset; the loader is
\* ready for the next call.  mResult dangles and is written before it is read.
destroyAsset ==
    /\ pc = "returned"
    /\ pc' = "idle"
    /\ doc' = NoDoc
    /\ stack' = << >>
    /\ skinIndex' = 0
    /\ retval' = "none"
    /\ errored' = FALSE
    /\ mResult' = Null
    /\ mEngine' = NewEngine
    /\ UNCHANGED << mMatInstanceCache, mMeshCache, mError >>

\* std::out_of_range leaves createAsset and the entry point; the caller
\* catches it.  The asset is lost, the caches and mError stay as they were.
Unwind ==
    /\ pc = "threw"
    /\ pc' = "idle"
    /\ doc' = NoDoc
    /\ stack' = << >>
    /\ skinIndex' = 0
    /\ retval' = "none"
    /\ errored' = FALSE
    /\ mResult' = Null
    /\ mEngine' = NewEngine
    /\ UNCHANGED << mMatInstanceCache, mMeshCache, mError >>

Next ==
    \/ ParseFailure
    \/ createAssetFromJson
    \/ createAssetFromBinary
    \/ VisitNode
    \/ CheckError
    \/ ResizeSkins
    \/ ImportSkin
    \/ BuildTargets
    \/ Cleanup
    \/ destroyAsset
    \/ Unwind

Spec == Init /\ [][Next]_vars

----------------------------------------------------------------------------
(* Reference definitions for the properties: what the document prescribes,  *)
(* computed from the document alone.                                       *)

RECURSIVE InScene(_, _, _)
\* node is reachable from the root list of the selected scene.
InScene(d, node, fuel) ==
    \/ d.parent[node] = 0
    \/ d.parent[node] > 0 /\ fuel > 0 /\ InScene(d, d.parent[node], fuel - 1)
Reachable(d) == IF d.hasScene THEN {n \in Nodes : InScene(d, n, MaxNodes)} ELSE {}

RECURSIVE PreOrder(_, _)
\* The nodes below the given roots in depth-first pre-order.
PreOrder(d, roots) ==
    IF roots = << >> THEN << >>
    ELSE << Head(roots) >> \o PreOrder(d, Children(d, Head(roots))) \o PreOrder(d, Tail(roots))
VisitOrder(d) == IF d.hasScene THEN PreOrder(d, SceneNodes(d)) ELSE << >>
IndexOf(seq, x) == CHOOSE i \in DOMAIN seq : seq[i] = x
\* The entity of a reachable node: the root entity is 1, the nodes follow in
\* visiting order.
EntityOf(d, node) == 1 + IndexOf(VisitOrder(d), node)

RECURSIVE WorldOf(_, _)
\* The world transform of a reachable node: the product of the local
\* transforms from its scene root down to it.
WorldOf(d, node) ==
    IF d.parent[node] = 0 THEN d.xform[node]
    ELSE Compose(WorldOf(d, d.parent[node]), d.xform[node])

SetMin(S) == CHOOSE x \in S : \A y \in S : x <= y
SetMax(S) == CHOOSE x \in S : \A y \in S : x >= y
IsEmptyBox(box) == box.min[1] > box.max[1] \/ box.min[2] > box.max[2]
BoxUnion(b1, b2) == [min |-> VMin(b1.min, b2.min), max |-> VMax(b1.max, b2.max)]
\* The object-space box of a source primitive: its position accessors' min/max.
SourceBox(inPrim) ==
    LET P == {k \in DOMAIN inPrim.attributes : inPrim.attributes[k].type = "position"}
    IN  IF P = {} THEN EmptyAabb
        ELSE [min |-> << SetMin({inPrim.attributes[k].data.min[1] : k \in P}),
                         SetMin({inPrim.attributes[k].data.min[2] : k \in P}) >>,
              max |-> << SetMax({inPrim.attributes[k].data.max[1] : k \in P}),
                         SetMax({inPrim.attributes[k].data.max[2] : k \in P}) >>]
\* The axis-aligned box that encloses a box transformed by m.
TransformedBox(m, box) ==
    IF IsEmptyBox(box) THEN EmptyAabb
    ELSE LET C == {Apply(m, << x, y >>) : x \in {box.min[1], box.max[1]},
                                          y \in {box.min[2], box.max[2]}}
         IN  [min |-> << SetMin({c[1] : c \in C}), SetMin({c[2] : c \in C}) >>,
              max |-> << SetMax({c[1] : c \in C}), SetMax({c[2] : c \in C}) >>]
RECURSIVE UnionOf(_)
UnionOf(boxes) ==
    IF boxes = {} THEN EmptyAabb
    ELSE LET b == CHOOSE x \in boxes : TRUE IN BoxUnion(b, UnionOf(boxes \ {b}))
\* The union of the transformed boxes of the primitives of the mesh-bearing
\* nodes of the scene.
ExpectedBoundingBox(d) ==
    UnionOf({TransformedBox(WorldOf(d, n), SourceBox(Meshes(d)[d.mesh[n]][i])) :
                << n, i >> \in {ni \in Reachable(d) \X {1, 2} :
                                   /\ d.mesh[ni[1]] # 0
                                   /\ ni[2] \in DOMAIN Meshes(d)[d.mesh[ni[1]]]}})

\* The traversal has visited every node; nothing after it has run yet.
TraversalDone == pc = "traverse" /\ stack = << >>
\* An import call has returned an asset.
ReturnedAsset == pc = "returned" /\ retval = "asset" /\ mResult # Null
\* The visited nodes that have a renderable.
MeshNodes == {n \in DOMAIN mResult[1].mNodeMap : mResult[1].mNodeMap[n] \in DOMAIN mEngine.renderables}
RenderableOf(node) == mEngine.renderables[mResult[1].mNodeMap[node]]
MeshIdsVisited == {doc.mesh[n] : n \in MeshNodes}

\* The source primitive behind primitive index of the renderable of node.
SourcePrim(node, index) == Meshes(doc)[doc.mesh[node]][index]

----------------------------------------------------------------------------
(* C1: mesh cache                                                          *)

\* Primitive index of two nodes that reference the same mesh uses the same
\* buffers: both have geometry with the same vertex and index buffer, or
\* neither has any.
SameGeometry(n1, n2) ==
    \A i \in DOMAIN RenderableOf(n1).geometry :
        /\ RenderableOf(n1).geometry[i].set = RenderableOf(n2).geometry[i].set
        /\ RenderableOf(n1).geometry[i].vertices = RenderableOf(n2).geometry[i].vertices
        /\ RenderableOf(n1).geometry[i].indices = RenderableOf(n2).geometry[i].indices

\* C1: within one import any two visited nodes that reference the same source
\* mesh use the same vertex and index buffers for primitive i, and when the
\* traversal has finished the mesh cache holds exactly one entry per source
\* mesh referenced by a visited node, with one Primitive per source primitive.
MeshCacheSharing ==
    pc = "traverse" =>
        /\ \A n1 \in MeshNodes, n2 \in MeshNodes : doc.mesh[n1] = doc.mesh[n2] => SameGeometry(n1, n2)
        /\ stack = << >> =>
            /\ DOMAIN mMeshCache = MeshIdsVisited
            /\ \A m \in MeshIdsVisited : Len(mMeshCache[m]) = Len(Meshes(doc)[m])

\* What the code does keep: where two nodes of the same mesh both have
\* geometry for primitive i the buffers are the same, and the entries of the
\* cache for the meshes of the document in progress are those of the visited
\* nodes.
MeshCacheSharingOfBuiltPrimitives ==
    pc = "traverse" =>
        /\ \A n1 \in MeshNodes, n2 \in MeshNodes : doc.mesh[n1] = doc.mesh[n2] =>
              \A i \in DOMAIN RenderableOf(n1).geometry :
                  (RenderableOf(n1).geometry[i].set /\ RenderableOf(n2).geometry[i].set) =>
                      /\ RenderableOf(n1).geometry[i].vertices = RenderableOf(n2).geometry[i].vertices
                      /\ RenderableOf(n1).geometry[i].indices = RenderableOf(n2).geometry[i].indices
        /\ stack = << >> =>
            /\ {m \in DOMAIN mMeshCache : m > 0} = MeshIdsVisited
            /\ \A m \in MeshIdsVisited : Len(mMeshCache[m]) = Len(Meshes(doc)[m])

----------------------------------------------------------------------------
(* C2, C3: material instances                                              *)

\* The instances created for a source material with a vertex-colour flag.
InstancesOf(inputMat, vertexColor) ==
    {i \in DOMAIN mEngine.instances :
        /\ mEngine.instances[i].material = inputMat
        /\ mEngine.instances[i].key.hasVertexColors = vertexColor}

\* C2: for every (source material, vertex-colour flag) pair at most one
\* instance is created, every primitive that references the pair gets that
\* instance, and the asset's instance list holds each created instance once.
OneInstancePerPair ==
    mResult # Null =>
        /\ \A inputMat \in DOMAIN Materials, vertexColor \in BOOLEAN :
              Cardinality(InstancesOf(inputMat, vertexColor)) <= 1
        /\ \A n \in MeshNodes : \A i \in DOMAIN RenderableOf(n).materials :
              SourcePrim(n, i).material # 0 =>
                  RenderableOf(n).materials[i] \in
                      InstancesOf(SourcePrim(n, i).material, primitiveHasVertexColor(SourcePrim(n, i)))
        /\ mResult[1].mMaterialInstances = [i \in DOMAIN mEngine.instances |-> i]

\* Two nodes share the instance of a material, and the material also has an
\* instance for the other value of the flag.
SharedInstanceReached ==
    /\ pc = "traverse"
    /\ \E n1 \in MeshNodes, n2 \in MeshNodes :
          /\ n1 # n2
          /\ \E i \in DOMAIN RenderableOf(n1).materials, j \in DOMAIN RenderableOf(n2).materials :
                /\ SourcePrim(n1, i).material # 0
                /\ RenderableOf(n1).materials[i] = RenderableOf(n2).materials[j]
    /\ \E inputMat \in DOMAIN Materials :
          InstancesOf(inputMat, TRUE) # {} /\ InstancesOf(inputMat, FALSE) # {}

\* The instances created for the null material.
DefaultInstances == {i \in DOMAIN mEngine.instances : mEngine.instances[i].material = 0}

\* C3: every primitive without source material gets one and the same default
\* instance, created once and cached under key 0, with or without vertex
\* colours.
SharedDefaultInstance ==
    pc = "traverse" =>
        /\ Cardinality(DefaultInstances) <= 1
        /\ \A n \in MeshNodes : \A i \in DOMAIN RenderableOf(n).materials :
              SourcePrim(n, i).material = 0 =>
                  /\ RenderableOf(n).materials[i] \in DefaultInstances
                  /\ 0 \in DOMAIN mMatInstanceCache
                  /\ mMatInstanceCache[0] = RenderableOf(n).materials[i]

----------------------------------------------------------------------------
(* C4: entities                                                            *)

\* The first n nodes of order have the entities 2 .. n + 1 (the root entity is
\* 1), listed in that order, mapped by the node map and parented as in the
\* document.
EntitiesFollow(order, n) ==
    /\ n <= Len(order)
    /\ mEngine.entities = n + 1
    /\ mResult[1].mEntities = [i \in 1 .. n |-> i + 1]
    /\ DOMAIN mResult[1].mNodeMap = {order[i] : i \in 1 .. n}
    /\ \A i \in 1 .. n :
          /\ mResult[1].mNodeMap[order[i]] = i + 1
          /\ mEngine.transforms[i + 1].local = doc.xform[order[i]]
          /\ mEngine.transforms[i + 1].parent =
                IF doc.parent[order[i]] = 0 THEN mResult[1].mRoot
                ELSE mResult[1].mNodeMap[doc.parent[order[i]]]

\* C4: the traversal creates one entity per node reachable from the root list
\* of the scene, parented to the entity of the node's parent (the root entity
\* for the roots of the scene), appended to the entity list in depth-first
\* pre-order and recorded in the node map.
EntitiesInPreOrder ==
    pc = "traverse" =>
        /\ EntitiesFollow(VisitOrder(doc), Len(mResult[1].mEntities))
        /\ stack = << >> =>
            /\ Len(mResult[1].mEntities) = Cardinality(Reachable(doc))
            /\ DOMAIN mResult[1].mNodeMap = Reachable(doc)

\* The traversal is done and a node below another one was visited before a
\* node that precedes it in the document.
PreOrderReached ==
    /\ TraversalDone
    /\ \E a \in Reachable(doc), b \in Reachable(doc) :
          /\ a < b
          /\ doc.parent[b] > 0
          /\ mResult[1].mNodeMap[a] > mResult[1].mNodeMap[b]

----------------------------------------------------------------------------
(* C5, C6: the error flag and the caches                                   *)

\* C5: when the error flag is set at the end of the traversal the asset is
\* discarded and the call returns null, and no later step of the import
\* touches the discarded asset.
ErrorDiscardsAsset ==
    errored =>
        /\ pc \notin {"crashed", "skins", "threw"}
        /\ pc \in {"cleanup", "returned"} => mResult = Null
        /\ pc = "returned" => retval = "null"

\* C6: whenever an import call returns, both caches are empty and the error
\* flag is clear.
CachesClearOnReturn ==
    pc = "returned" =>
        /\ DOMAIN mMatInstanceCache = {}
        /\ DOMAIN mMeshCache = {}
        /\ ~mError

----------------------------------------------------------------------------
(* C7, C8: skins                                                           *)

\* The joints of skin s of the asset are the entities of the joint nodes of
\* skin s of the document, in order.
JointsResolved(s) ==
    /\ Len(mResult[1].mSkins[s].joints) = Len(doc.skins[s])
    /\ \A i \in DOMAIN doc.skins[s] :
          /\ doc.skins[s][i] \in Reachable(doc)
          /\ mResult[1].mSkins[s].joints[i] = EntityOf(doc, doc.skins[s][i])

\* C7: the joints are resolved only once every node of the scene has been
\* visited, and a returned asset has, for each skin, the entities of the
\* joint nodes in the order of the source.
JointsResolvedAfterTraversal ==
    /\ pc = "traverse" => mResult[1].mSkins = << >>
    /\ pc = "skins" => stack = << >> /\ DOMAIN mResult[1].mNodeMap = Reachable(doc)
    /\ ReturnedAsset =>
          /\ doc.hasScene => Len(mResult[1].mSkins) = Len(doc.skins)
          /\ \A s \in DOMAIN mResult[1].mSkins : JointsResolved(s)

\* An asset is returned in which a joint was visited later than a node that
\* references the joint's skin.
LateJointReached ==
    /\ ReturnedAsset
    /\ \E n \in Reachable(doc) :
          /\ doc.skin[n] # 0
          /\ \E i \in DOMAIN doc.skins[doc.skin[n]] :
                /\ doc.skins[doc.skin[n]][i] \in Reachable(doc)
                /\ EntityOf(doc, doc.skins[doc.skin[n]][i]) > EntityOf(doc, n)
                /\ mResult[1].mSkins[doc.skin[n]].joints[i] = EntityOf(doc, doc.skins[doc.skin[n]][i])

\* Some skin of the document lists a joint node the traversal does not visit.
UnvisitedJoint ==
    \E s \in DOMAIN doc.skins : \E i \in DOMAIN doc.skins[s] : doc.skins[s][i] \notin Reachable(doc)
\* No skin of the asset holds a null joint or lacks one.
NoNullJoint ==
    \A s \in DOMAIN mResult[1].mSkins :
        /\ Len(mResult[1].mSkins[s].joints) = Len(doc.skins[s])
        /\ \A i \in DOMAIN mResult[1].mSkins[s].joints : mResult[1].mSkins[s].joints[i] # 0

\* C8 as stated: a document with a skin that lists an unvisited joint never
\* yields an asset, and no returned asset has a null joint.
UnvisitedJointFailsImport ==
    ReturnedAsset => ~UnvisitedJoint /\ NoNullJoint

\* C8: when a scene is selected, a document with a skin that lists an
\* unvisited joint never yields an asset (the call ends in out_of_range or
\* earlier); no returned asset has a null joint.  Without a scene the asset
\* is returned empty, whatever the skins list.
UnvisitedJointFailsSceneImport ==
    ReturnedAsset =>
        /\ doc.hasScene => ~UnvisitedJoint
        /\ ~doc.hasScene => mResult[1].mSkins = << >>
        /\ NoNullJoint

\* The import of a scene has ended in out_of_range at a joint that was not
\* visited.
UnvisitedJointThrew ==
    /\ pc = "threw"
    /\ doc.hasScene
    /\ \E i \in DOMAIN doc.skins[skinIndex] : doc.skins[skinIndex][i] \notin Reachable(doc)

----------------------------------------------------------------------------
(* C9: bounding box                                                        *)

\* C9: the bounding box of a returned asset is the union of the boxes of the
\* primitives of the visited nodes, each transformed by the node's world
\* transform, whatever the transform.
BoundingBoxIsUnion ==
    (ReturnedAsset /\ ~errored) => mResult[1].mBoundingBox = ExpectedBoundingBox(doc)

----------------------------------------------------------------------------
(* C10: primitives without index accessor                                  *)

\* The built primitives of the import in progress: mesh and index.
BuiltPrimitives ==
    {mi \in {m \in DOMAIN mMeshCache : m > 0} \X {1, 2} :
        mi[2] \in DOMAIN mMeshCache[mi[1]] /\ mMeshCache[mi[1]][mi[2]].vertices > 0}
\* The bindings that target an index buffer.
BindingsOfIndexBuffer(indices) ==
    {k \in DOMAIN mResult[1].mBufferBindings : mResult[1].mBufferBindings[k].indexBuffer = indices}
\* The primitive p has one index binding, which asks for trivial indices and
\* names no source bytes, and as many indices as vertices.
HasTrivialIndices(p) ==
    /\ Cardinality(BindingsOfIndexBuffer(p.indices)) = 1
    /\ \A k \in BindingsOfIndexBuffer(p.indices) :
          /\ mResult[1].mBufferBindings[k].generateTrivialIndices
          /\ ~mResult[1].mBufferBindings[k].convertBytesToShorts
          /\ mResult[1].mBufferBindings[k].uri = Null
          /\ mResult[1].mBufferBindings[k].offset = U32Of(0)
          /\ mResult[1].mBufferBindings[k].totalSize = U32Of(0)
          /\ ~mResult[1].mBufferBindings[k].data
          /\ mResult[1].mBufferBindings[k].vertexBuffer = 0
    /\ mEngine.indexBuffers[p.indices].indexCount = mEngine.vertexBuffers[p.vertices].vertexCount

\* C10: every built primitive without index accessor has exactly one index
\* binding, flagged generateTrivialIndices and not convertBytesToShorts,
\* without uri, offset or data, for an index buffer of as many indices as
\* the primitive has vertices.
TrivialIndicesForUnindexed ==
    pc = "traverse" =>
        \A mi \in BuiltPrimitives :
            Meshes(doc)[mi[1]][mi[2]].indices = Null => HasTrivialIndices(mMeshCache[mi[1]][mi[2]])

\* Two primitives without index accessor and with different vertex counts are
\* built, next to one with an index accessor.
UnindexedBuilt ==
    /\ pc = "traverse"
    /\ \E a \in BuiltPrimitives, b \in BuiltPrimitives, c \in BuiltPrimitives :
          /\ Meshes(doc)[a[1]][a[2]].indices = Null
          /\ Meshes(doc)[b[1]][b[2]].indices = Null
          /\ Meshes(doc)[c[1]][c[2]].indices # Null
          /\ mEngine.indexBuffers[mMeshCache[a[1]][a[2]].indices].indexCount
                # mEngine.indexBuffers[mMeshCache[b[1]][b[2]].indices].indexCount

----------------------------------------------------------------------------
(* C11: primitives with an index accessor                                  *)

\* The primitive p, built from a source with the index accessor accessor,
\* has one index binding; it is marked for widening exactly for 8-bit
\* unsigned indices and does not ask for trivial indices.
HasSourceIndices(p, accessor) ==
    /\ Cardinality(BindingsOfIndexBuffer(p.indices)) = 1
    /\ \A k \in BindingsOfIndexBuffer(p.indices) :
          /\ mResult[1].mBufferBindings[k].convertBytesToShorts = (accessor.component_type = "r_8u")
          /\ ~mResult[1].mBufferBindings[k].generateTrivialIndices
          /\ mResult[1].mBufferBindings[k].vertexBuffer = 0
    /\ mEngine.indexBuffers[p.indices].indexCount = accessor.count

\* C11: every built primitive with an index accessor has exactly one index
\* binding, with convertBytesToShorts set if and only if the indices are 8-bit
\* unsigned, and with generateTrivialIndices clear.
SourceIndicesForIndexed ==
    pc = "traverse" =>
        \A mi \in BuiltPrimitives :
            Meshes(doc)[mi[1]][mi[2]].indices # Null =>
                HasSourceIndices(mMeshCache[mi[1]][mi[2]], Meshes(doc)[mi[1]][mi[2]].indices[1])

\* Primitives with 8-bit, 16-bit and 32-bit indices are built in one import.
IndexedBuilt ==
    /\ pc = "traverse"
    /\ \A ctype \in {"r_8u", "r_16u", "r_32u"} :
          \E mi \in BuiltPrimitives :
              /\ Meshes(doc)[mi[1]][mi[2]].indices # Null
              /\ Meshes(doc)[mi[1]][mi[2]].indices[1].component_type = ctype

----------------------------------------------------------------------------
(* C12: entity and renderable counts                                       *)

\* The scene is the single node n, whose mesh has two primitives that share
\* one source material and one vertex-colour flag.
SingleNodeTwoPrimitives(n) ==
    /\ Reachable(doc) = {n}
    /\ doc.mesh[n] # 0
    /\ Len(MeshOf(doc, n)) = 2
    /\ MeshOf(doc, n)[1].material # 0
    /\ MeshOf(doc, n)[1].material = MeshOf(doc, n)[2].material
    /\ primitiveHasVertexColor(MeshOf(doc, n)[1]) = primitiveHasVertexColor(MeshOf(doc, n)[2])

\* C12: a scene of N nodes yields N + 1 entities and one renderable per node
\* with a mesh, on the node's own entity and with as many primitives as the
\* mesh, also for meshes shared by several nodes; a single node whose mesh
\* has two primitives of one material yields 2 entities, one renderable of 2
\* primitives, one material instance and one mesh-cache entry of 2 records.
EntityAndRenderableCounts ==
    TraversalDone =>
        /\ mEngine.entities = Cardinality(Reachable(doc)) + 1
        /\ DOMAIN mEngine.renderables =
              {mResult[1].mNodeMap[n] : n \in {x \in Reachable(doc) : doc.mesh[x] # 0}}
        /\ Cardinality(DOMAIN mEngine.renderables) =
              Cardinality({x \in Reachable(doc) : doc.mesh[x] # 0})
        /\ \A n \in MeshNodes :
              /\ Len(RenderableOf(n).geometry) = Len(MeshOf(doc, n))
              /\ Len(RenderableOf(n).materials) = Len(MeshOf(doc, n))
        /\ \A n \in Nodes : SingleNodeTwoPrimitives(n) =>
              /\ mEngine.entities = 2
              /\ Cardinality(DOMAIN mEngine.renderables) = 1
              /\ Len(RenderableOf(n).geometry) = 2
              /\ Len(mEngine.instances) = 1
              /\ {m \in DOMAIN mMeshCache : m > 0} = {doc.mesh[n]}
              /\ Len(mMeshCache[doc.mesh[n]]) = 2

\* The traversal of a single node with two built primitives of one material
\* is done.
SingleNodeDone ==
    /\ TraversalDone
    /\ \E n \in Nodes :
          /\ SingleNodeTwoPrimitives(n)
          /\ \A i \in 1 .. 2 : RenderableOf(n).geometry[i].set

----------------------------------------------------------------------------
(* C13: documents without scene                                            *)

\* An import of a document without scene has returned.
ZeroSceneReturned == pc = "returned" /\ retval = "asset" /\ ~doc.hasScene

\* The asset is empty and the engine has no entity of this import.
EmptyAssetReturned ==
    /\ mResult # Null
    /\ mResult[1].mRoot = 0
    /\ mResult[1].mEntities = << >>
    /\ DOMAIN mResult[1].mNodeMap = {}
    /\ mResult[1].mBufferBindings = << >>
    /\ mResult[1].mTextureBindings = << >>
    /\ mResult[1].mMaterialInstances = << >>
    /\ mResult[1].mSkins = << >>
    /\ mResult[1].mBoundingBox = EmptyAabb
    /\ mEngine.entities = 0
    /\ DOMAIN mEngine.transforms = {}
    /\ DOMAIN mEngine.renderables = {}

\* C13: a parsed document without any scene yields a non-null asset without
\* root entity, node entities, bindings or bounding box, and the call does
\* not set the error flag.
ZeroSceneYieldsEmptyAsset ==
    /\ [](ZeroSceneReturned => EmptyAssetReturned)
    /\ [][(pc = "idle" /\ ZeroSceneReturned') => (mError' = mError /\ (pc' = "returned"))]_vars

\* A document without scene that has meshes and skins was imported.
ZeroSceneWithContentReturned ==
    /\ ZeroSceneReturned
    /\ doc.skins # << >>
    /\ \A n \in Nodes : doc.mesh[n] # 0 /\ doc.skin[n] # 0

----------------------------------------------------------------------------
(* C14: samplers of the texture bindings                                   *)

\* The texture view of material m that feeds a material parameter.
ViewOfParameter(m, name) ==
    CASE name = "baseColorMap" -> m.base_color_texture
      [] name = "metallicRoughnessMap" -> m.metallic_roughness_texture
      [] name = "normalMap" -> m.normal_texture
      [] name = "occlusionMap" -> m.occlusion_texture
      [] name = "emissiveMap" -> m.emissive_texture
\* The source texture of a texture binding.
TextureOfBinding(b) ==
    ViewOfParameter(Materials[mEngine.instances[b.materialInstance].material],
                    b.materialParameter).texture[1]
\* The glTF meaning of the sampler enums (OpenGL values).
WrapOfGl(gl) ==
    CASE gl = 10497 -> "REPEAT" [] gl = 33071 -> "CLAMP_TO_EDGE" [] gl = 33648 -> "MIRRORED_REPEAT"
FilterOfGl(gl) ==
    CASE gl = 9728 -> "NEAREST" [] gl = 9729 -> "LINEAR"
      [] gl = 9984 -> "NEAREST_MIPMAP_NEAREST" [] gl = 9985 -> "LINEAR_MIPMAP_NEAREST"
      [] gl = 9986 -> "NEAREST_MIPMAP_LINEAR" [] gl = 9987 -> "LINEAR_MIPMAP_LINEAR"
\* The sampler a binding of texture tex has to carry.
ExpectedSampler(tex) ==
    IF tex.sampler = Null
    THEN [wrapS |-> "REPEAT", wrapT |-> "REPEAT", mag |-> "LINEAR", min |-> "LINEAR_MIPMAP_LINEAR"]
    ELSE [wrapS |-> WrapOfGl(tex.sampler[1].wrap_s), wrapT |-> WrapOfGl(tex.sampler[1].wrap_t),
          mag |-> FilterOfGl(tex.sampler[1].mag_filter), min |-> FilterOfGl(tex.sampler[1].min_filter)]

\* C14: the binding of a texture with an image and without sampler repeats on
\* both axes, minifies linear-mipmap-linear and magnifies linear; the binding
\* of a texture with a sampler has the wrap and filter modes of that sampler.
SamplerOfTextureBinding ==
    mResult # Null =>
        \A k \in DOMAIN mResult[1].mTextureBindings :
            /\ TextureOfBinding(mResult[1].mTextureBindings[k]).image # Null
            /\ mResult[1].mTextureBindings[k].sampler =
                  ExpectedSampler(TextureOfBinding(mResult[1].mTextureBindings[k]))

\* An asset is returned with a binding of a texture without sampler and one
\* of a texture with a sampler.
BothSamplerKindsReturned ==
    /\ ReturnedAsset
    /\ \E j \in DOMAIN mResult[1].mTextureBindings, k \in DOMAIN mResult[1].mTextureBindings :
          /\ TextureOfBinding(mResult[1].mTextureBindings[j]).sampler = Null
          /\ TextureOfBinding(mResult[1].mTextureBindings[k]).sampler # Null

----------------------------------------------------------------------------
(* C15: buffers are built once                                             *)

\* The source primitives of the meshes of the visited nodes: mesh and index.
PrimitivesVisited ==
    {mi \in MeshIdsVisited \X {1, 2} : mi[2] \in DOMAIN Meshes(doc)[mi[1]]}

\* C15: the buffers of a source primitive are built at most once, however
\* many nodes reference its mesh and whether or not it built on the first
\* reference: there are no more index buffers, vertex buffers and index
\* bindings than source primitives of the meshes referenced so far.
BuffersBuiltOnce ==
    pc = "traverse" =>
        /\ Len(mEngine.indexBuffers) <= Cardinality(PrimitivesVisited)
        /\ Len(mEngine.vertexBuffers) <= Cardinality(PrimitivesVisited)
        /\ Cardinality({k \in DOMAIN mResult[1].mBufferBindings :
                           mResult[1].mBufferBindings[k].indexBuffer # 0})
              <= Cardinality(PrimitivesVisited)

----------------------------------------------------------------------------
(* C16: a failed primitive is skipped alone                                *)

\* The source primitive builds whatever the UV-slot assignment: its index
\* type and the semantic, element type and density of its attributes are
\* supported.
SurelyBuilds(inPrim) ==
    /\ inPrim.indices # Null => inPrim.indices[1].component_type \in {"r_8u", "r_16u", "r_32u"}
    /\ \A slot \in DOMAIN inPrim.attributes :
          \/ inPrim.attributes[slot].type \in {"normal", "tangent"}
          \/ /\ inPrim.attributes[slot].type \in {"position", "texcoord", "color", "joints", "weights"}
             /\ inPrim.attributes[slot].data.component_type \in {"r_8", "r_8u", "r_16", "r_16u", "r_32f"}
             /\ inPrim.attributes[slot].data.type \in {"scalar", "vec2", "vec3", "vec4"}
             /\ ~inPrim.attributes[slot].data.is_sparse

\* Every visited node has its entity and its transform, every primitive slot
\* of every renderable has its material instance, and every primitive that
\* can be built has its geometry.
NothingElseSkipped ==
    /\ \A n \in DOMAIN mResult[1].mNodeMap :
          /\ mResult[1].mNodeMap[n] \in DOMAIN mEngine.transforms
          /\ doc.mesh[n] # 0 => n \in MeshNodes
    /\ \A n \in MeshNodes : \A i \in DOMAIN RenderableOf(n).materials :
          /\ RenderableOf(n).materials[i] # 0
          /\ SurelyBuilds(SourcePrim(n, i)) => RenderableOf(n).geometry[i].set

\* C16: a primitive that fails to build is skipped alone: the other
\* primitives of the mesh, the children and the later nodes are processed,
\* every node of the scene gets its entity and transform, and the error flag
\* stays set until the traversal has finished.
FailedPrimitiveSkippedAlone ==
    /\ [](pc = "traverse" => NothingElseSkipped)
    /\ [](TraversalDone => DOMAIN mResult[1].mNodeMap = Reachable(doc))
    /\ [][(pc = "traverse" /\ mError) => mError']_vars

\* The traversal ended with the error flag set by the first primitive of the
\* mesh of a node that has a child: the second primitive and the mesh of the
\* child were built after the failure.
BuiltAfterFailure ==
    /\ TraversalDone
    /\ mError
    /\ \E n \in MeshNodes, c \in MeshNodes :
          /\ doc.parent[c] = n
          /\ ~RenderableOf(n).geometry[1].set
          /\ RenderableOf(n).geometry[2].set
          /\ doc.mesh[c] # doc.mesh[n]
          /\ RenderableOf(c).geometry[1].set

----------------------------------------------------------------------------
(* C17: unsupported primitive types                                        *)

\* C17: a primitive of unsupported type sets the error flag and is skipped:
\* no buffers are built for it and the renderable gets no geometry for it.
UnsupportedTypeSkipped ==
    pc = "traverse" =>
        \A n \in MeshNodes : \A i \in DOMAIN RenderableOf(n).geometry :
            ~getPrimitiveType(SourcePrim(n, i).type).ok =>
                /\ mError
                /\ ~RenderableOf(n).geometry[i].set
                /\ mMeshCache[doc.mesh[n]][i].vertices = 0
                /\ mMeshCache[doc.mesh[n]][i].indices = 0

----------------------------------------------------------------------------
(* C18: vertex buffer bindings                                             *)

\* The bindings that target a vertex buffer.
BindingsOfVertexBuffer(vertices) ==
    {k \in DOMAIN mResult[1].mBufferBindings : mResult[1].mBufferBindings[k].vertexBuffer = vertices}
\* The slots (from 0) the vertex buffer declares.
DeclaredSlots(vertices) == {e.slot : e \in mEngine.vertexBuffers[vertices].layout}
\* The slots (from 0) of the source attributes that need a binding: neither
\* normal nor tangent nor a texcoord set the vertex buffer leaves out.
SlotsToBind(inPrim, vertices) ==
    {slot - 1 : slot \in
        {x \in DOMAIN inPrim.attributes :
            /\ inPrim.attributes[x].type \notin {"normal", "tangent"}
            /\ inPrim.attributes[x].type = "texcoord" => (x - 1) \in DeclaredSlots(vertices)}}
\* The vertex buffer has exactly one binding for each slot to bind, and none
\* else.
HasVertexBindings(inPrim, vertices) ==
    /\ {mResult[1].mBufferBindings[k].bufferIndex : k \in BindingsOfVertexBuffer(vertices)}
          = SlotsToBind(inPrim, vertices)
    /\ Cardinality(BindingsOfVertexBuffer(vertices)) = Cardinality(SlotsToBind(inPrim, vertices))
    /\ \A k \in BindingsOfVertexBuffer(vertices) :
          /\ mResult[1].mBufferBindings[k].indexBuffer = 0
          /\ mResult[1].mBufferBindings[k].data
          /\ ~mResult[1].mBufferBindings[k].generateTrivialIndices
          /\ ~mResult[1].mBufferBindings[k].convertBytesToShorts
    /\ mEngine.vertexBuffers[vertices].bufferCount = Len(inPrim.attributes)

\* C18: every built primitive has exactly one vertex binding per source
\* attribute that is neither a normal nor a tangent nor an unused texcoord
\* set, with the attribute's position in the source list as buffer slot and
\* the primitive's vertex buffer as destination; normals, tangents and unused
\* texcoord sets have no binding and the slots are not compacted.
VertexBindingsPerAttribute ==
    pc = "traverse" =>
        /\ \A mi \in BuiltPrimitives :
              HasVertexBindings(Meshes(doc)[mi[1]][mi[2]], mMeshCache[mi[1]][mi[2]].vertices)
        /\ \A k \in DOMAIN mResult[1].mBufferBindings :
              mResult[1].mBufferBindings[k].vertexBuffer # 0 =>
                  \E mi \in BuiltPrimitives :
                      mMeshCache[mi[1]][mi[2]].vertices = mResult[1].mBufferBindings[k].vertexBuffer

\* A primitive is built whose fourth attribute is bound to slot 3 after a
\* tangent without binding, and another one with a normal and an unused
\* texcoord set.
SparseSlotsBuilt ==
    /\ pc = "traverse"
    /\ \E a \in BuiltPrimitives, b \in BuiltPrimitives :
          /\ SlotsToBind(Meshes(doc)[a[1]][a[2]], mMeshCache[a[1]][a[2]].vertices) = {0, 1, 3}
          /\ \E x \in DOMAIN Meshes(doc)[b[1]][b[2]].attributes :
                Meshes(doc)[b[1]][b[2]].attributes[x].type = "normal"
          /\ \E x \in DOMAIN Meshes(doc)[b[1]][b[2]].attributes :
                /\ Meshes(doc)[b[1]][b[2]].attributes[x].type = "texcoord"
                /\ (x - 1) \notin DeclaredSlots(mMeshCache[b[1]][b[2]].vertices)

----------------------------------------------------------------------------
(* C19: skin targets                                                       *)

\* The nodes that reference skin s, in document order.
NodesOfSkin(d, s) == SelectSeq([n \in 1 .. MaxNodes |-> n], LAMBDA n : d.skin[n] = s)
\* The target list of skin s holds the entity created for each node that
\* references s, in document order.
TargetsOfSkin(s) ==
    /\ Len(mResult[1].mSkins[s].targets) = Len(NodesOfSkin(doc, s))
    /\ \A i \in DOMAIN NodesOfSkin(doc, s) :
          /\ NodesOfSkin(doc, s)[i] \in Reachable(doc)
          /\ mResult[1].mSkins[s].targets[i] = EntityOf(doc, NodesOfSkin(doc, s)[i])
\* An import of a document with a scene has returned an asset.
SceneImported == ReturnedAsset /\ doc.hasScene

\* C19: after a successful import each skin's target list holds exactly the
\* entities created for the nodes that reference the skin, one per node, in
\* document node order.
SkinTargetsAreSkinnedEntities ==
    SceneImported =>
        /\ DOMAIN mResult[1].mSkins = DOMAIN doc.skins
        /\ \A s \in DOMAIN doc.skins : TargetsOfSkin(s)

\* The same for documents whose skinned nodes are all part of the scene.
SkinTargetsOfVisitedNodes ==
    (SceneImported /\ \A n \in Nodes : doc.skin[n] # 0 => n \in Reachable(doc)) =>
        /\ DOMAIN mResult[1].mSkins = DOMAIN doc.skins
        /\ \A s \in DOMAIN doc.skins : TargetsOfSkin(s)

----------------------------------------------------------------------------
(* C20: the UV-slot assignment of a primitive                              *)

\* The assignment the material generator produces for the material and the
\* vertex-color flag of a primitive.
GeneratedUvMap(inPrim) ==
    IF inPrim.material = 0 THEN getOrCreateMaterial(UnlitKey)
    ELSE getOrCreateMaterial(MaterialKey(Materials[inPrim.material], primitiveHasVertexColor(inPrim)))
\* The vertex buffer declares each texcoord set of the primitive as uvmap says.
DeclaredAs(inPrim, vertices, uvmap) ==
    \A x \in DOMAIN inPrim.attributes :
        inPrim.attributes[x].type = "texcoord" =>
            IF uvmap[inPrim.attributes[x].index] = "UNUSED"
            THEN (x - 1) \notin DeclaredSlots(vertices)
            ELSE [attribute |-> uvmap[inPrim.attributes[x].index], slot |-> x - 1]
                     \in mEngine.vertexBuffers[vertices].layout

\* C20: the vertex buffer of every built primitive maps the texcoord sets as
\* the material generator's assignment for the primitive's material and
\* vertex-color flag says, also when the material instance came from the
\* cache.
UvAssignmentIsGenerated ==
    pc = "traverse" =>
        \A mi \in BuiltPrimitives :
            DeclaredAs(Meshes(doc)[mi[1]][mi[2]], mMeshCache[mi[1]][mi[2]].vertices,
                       GeneratedUvMap(Meshes(doc)[mi[1]][mi[2]]))

----------------------------------------------------------------------------
(* C21: the node map and the entities of the skins                         *)

\* The entities of the asset's entity list.
EntitiesOfAsset == {mResult[1].mEntities[i] : i \in DOMAIN mResult[1].mEntities}

\* C21: after an import the node map has an entry exactly for the visited
\* nodes, and every entity of a joint list or a target list is in the
\* asset's entity list: a skinned node outside the scene adds no map entry
\* and no null target.
NodeMapOfVisitedNodes ==
    SceneImported =>
        /\ DOMAIN mResult[1].mNodeMap = Reachable(doc)
        /\ \A s \in DOMAIN mResult[1].mSkins :
              /\ \A i \in DOMAIN mResult[1].mSkins[s].joints :
                    mResult[1].mSkins[s].joints[i] \in EntitiesOfAsset
              /\ \A i \in DOMAIN mResult[1].mSkins[s].targets :
                    mResult[1].mSkins[s].targets[i] \in EntitiesOfAsset

\* The same up to the end of the skin import, before the target lists are
\* built.
NodeMapBeforeTargets ==
    (pc \in {"traverse", "resize", "skins"} /\ mResult # Null) =>
        /\ DOMAIN mResult[1].mNodeMap \subseteq Reachable(doc)
        /\ (stack = << >> => DOMAIN mResult[1].mNodeMap = Reachable(doc))
        /\ \A s \in DOMAIN mResult[1].mSkins :
              \A i \in DOMAIN mResult[1].mSkins[s].joints :
                  mResult[1].mSkins[s].joints[i] \in EntitiesOfAsset \cup {0}

----------------------------------------------------------------------------
(* C22: what a failed primitive leaves behind                              *)

\* The primitives of the import in progress that are not built: mesh and
\* index.
UnbuiltPrimitives ==
    {mi \in {m \in DOMAIN mMeshCache : m > 0} \X {1, 2} :
        mi[2] \in DOMAIN mMeshCache[mi[1]] /\ mMeshCache[mi[1]][mi[2]].vertices = 0}
\* Every binding of the plan targets a buffer of a built primitive.
BindingsOfBuiltPrimitives ==
    \A k \in DOMAIN mResult[1].mBufferBindings :
        \E mi \in BuiltPrimitives :
            \/ /\ mResult[1].mBufferBindings[k].indexBuffer # 0
               /\ mResult[1].mBufferBindings[k].indexBuffer = mMeshCache[mi[1]][mi[2]].indices
            \/ /\ mResult[1].mBufferBindings[k].vertexBuffer # 0
               /\ mResult[1].mBufferBindings[k].vertexBuffer = mMeshCache[mi[1]][mi[2]].vertices

\* C22: a primitive whose construction fails leaves the cached Primitive
\* record (buffers and box) and the list of bindings as they were before the
\* attempt: the record of a primitive that is not built is the initial one,
\* and the plan holds no binding of it.
FailedPrimitiveLeavesNoTrace ==
    pc = "traverse" =>
        /\ \A mi \in UnbuiltPrimitives : mMeshCache[mi[1]][mi[2]] = NewPrimitive
        /\ BindingsOfBuiltPrimitives

\* The construction of inPrim fails at its first check, the type of the
\* indices.
FailsOnIndexType(inPrim) ==
    inPrim.indices # Null /\ ~getIndexType(inPrim.indices[1].component_type).ok

\* The same for the primitives that fail on the type of their indices, before
\* anything is pushed.
UnrecognizedIndexTypeLeavesNoTrace ==
    pc = "traverse" =>
        /\ \A mi \in UnbuiltPrimitives :
              FailsOnIndexType(Meshes(doc)[mi[1]][mi[2]]) => mMeshCache[mi[1]][mi[2]] = NewPrimitive
        /\ (\A mi \in PrimitivesVisited :
                SurelyBuilds(Meshes(doc)[mi[1]][mi[2]]) \/ FailsOnIndexType(Meshes(doc)[mi[1]][mi[2]]))
              => BindingsOfBuiltPrimitives

----------------------------------------------------------------------------
(* C23: a texture without image                                            *)

TextureParameters ==
    {"baseColorMap", "metallicRoughnessMap", "normalMap", "occlusionMap", "emissiveMap"}
\* The texture slots of material m that are present and name an image.
SlotsWithImage(m) ==
    {name \in TextureParameters :
        /\ ViewOfParameter(m, name).texture # Null
        /\ ViewOfParameter(m, name).texture[1].image # Null}
\* Material m has a present texture slot whose texture has no image.
HasImagelessSlot(m) ==
    \E name \in TextureParameters :
        /\ ViewOfParameter(m, name).texture # Null
        /\ ViewOfParameter(m, name).texture[1].image = Null
\* The texture bindings of a material instance.
TextureBindingsOf(instance) ==
    {k \in DOMAIN mResult[1].mTextureBindings :
        mResult[1].mTextureBindings[k].materialInstance = instance}
\* The instance has one binding for each slot with an image, and no other.
BoundToImages(instance, m) ==
    /\ {mResult[1].mTextureBindings[k].materialParameter : k \in TextureBindingsOf(instance)}
          = SlotsWithImage(m)
    /\ Cardinality(TextureBindingsOf(instance)) = Cardinality(SlotsWithImage(m))
\* The instances of the materials with an imageless slot have the bindings of
\* their other slots, are in the asset's list, and are what the renderables
\* of the primitives with these materials got.
ImagelessSlotSkipped ==
    /\ \A i \in DOMAIN mEngine.instances :
          (mEngine.instances[i].material # 0 /\ HasImagelessSlot(Materials[mEngine.instances[i].material]))
              => /\ BoundToImages(i, Materials[mEngine.instances[i].material])
                 /\ \E k \in DOMAIN mResult[1].mMaterialInstances : mResult[1].mMaterialInstances[k] = i
    /\ \A n \in MeshNodes : \A i \in DOMAIN RenderableOf(n).materials :
          (SourcePrim(n, i).material # 0 /\ HasImagelessSlot(Materials[SourcePrim(n, i).material]))
              => RenderableOf(n).materials[i] \in
                     InstancesOf(SourcePrim(n, i).material, primitiveHasVertexColor(SourcePrim(n, i)))
\* During the traversal the instances of the materials with an imageless slot
\* are in the cache under their key.
ImagelessInstanceCached ==
    \A i \in DOMAIN mEngine.instances :
        (mEngine.instances[i].material # 0 /\ HasImagelessSlot(Materials[mEngine.instances[i].material]))
            => LET key == MatInstanceKey(mEngine.instances[i].material,
                                         mEngine.instances[i].key.hasVertexColors)
               IN  key \in DOMAIN mMatInstanceCache /\ mMatInstanceCache[key] = i
\* The next createEntity call is for a node whose primitives all build and of
\* which one has a material with an imageless slot.
ImagelessNodeNext ==
    /\ pc = "traverse"
    /\ stack # << >>
    /\ \A i \in DOMAIN MeshOf(doc, Head(stack)[1]) : SurelyBuilds(MeshOf(doc, Head(stack)[1])[i])
    /\ \E i \in DOMAIN MeshOf(doc, Head(stack)[1]) :
          /\ MeshOf(doc, Head(stack)[1])[i].material # 0
          /\ HasImagelessSlot(Materials[MeshOf(doc, Head(stack)[1])[i].material])

\* C23: a present texture slot whose texture has no image adds no texture
\* binding and does not set the error flag; the instance is created, cached
\* and given to the renderable, the other slots of the material get their
\* bindings, and the traversal goes on.
ImagelessTextureIsSkipped ==
    /\ [](mResult # Null => ImagelessSlotSkipped)
    /\ [](pc = "traverse" => ImagelessInstanceCached)
    /\ [][ImagelessNodeNext => (mError' = mError /\ pc' = "traverse" /\ mResult' # Null)]_vars

\* An asset is returned, without error, in which an instance of a material
\* with an imageless slot has a binding, and a node was visited after the
\* node that created the instance.
ImagelessInstanceReturned ==
    /\ ReturnedAsset
    /\ ~errored
    /\ \E i \in DOMAIN mEngine.instances :
          /\ mEngine.instances[i].material # 0
          /\ HasImagelessSlot(Materials[mEngine.instances[i].material])
          /\ TextureBindingsOf(i) # {}
          /\ \E n \in MeshNodes : \E j \in DOMAIN RenderableOf(n).materials :
                /\ RenderableOf(n).materials[j] = i
                /\ \E later \in DOMAIN mResult[1].mNodeMap :
                      mResult[1].mNodeMap[later] > mResult[1].mNodeMap[n]

----------------------------------------------------------------------------
(* C24: the colour space of a texture binding                              *)

\* The slots whose maps hold colours; the others hold data.
ColorParameters == {"baseColorMap", "emissiveMap"}

\* C24: every texture binding is flagged sRGB iff its slot is the
\* base-colour or the emissive map, and linear for the metallic-roughness,
\* normal and occlusion maps; a slot has a binding only if the source
\* material has a texture in that slot.
ColorSpaceOfTextureBinding ==
    mResult # Null =>
        \A k \in DOMAIN mResult[1].mTextureBindings :
            /\ mEngine.instances[mResult[1].mTextureBindings[k].materialInstance].material # 0
            /\ mResult[1].mTextureBindings[k].materialParameter \in TextureParameters
            /\ ViewOfParameter(
                   Materials[mEngine.instances[mResult[1].mTextureBindings[k].materialInstance].material],
                   mResult[1].mTextureBindings[k].materialParameter).texture # Null
            /\ mResult[1].mTextureBindings[k].srgb
                  = (mResult[1].mTextureBindings[k].materialParameter \in ColorParameters)

\* An asset is returned that has a binding for each of the five slots, and
\* an instance of a material that lacks a slot.
AllSlotsBoundReturned ==
    /\ ReturnedAsset
    /\ {mResult[1].mTextureBindings[k].materialParameter : k \in DOMAIN mResult[1].mTextureBindings}
          = TextureParameters
    /\ \E i \in DOMAIN mEngine.instances :
          /\ mEngine.instances[i].material # 0
          /\ ViewOfParameter(Materials[mEngine.instances[i].material], "emissiveMap").texture = Null

----------------------------------------------------------------------------
(* C25: size and offset of the bindings with source bytes                  *)

\* n times stride modulo 2^32, for a stride below 2^15: the product with the
\* high half of n moves to the high half, the one with the low half is added.
Times32(stride, n) ==
    Add32(<< (stride * (n \div 65536)) % 65536, 0 >>, U32Of(stride * (n % 65536)))
\* stride x (count - 1) + elementSize, as a 32-bit unsigned value.
SizeOfAccessor(accessor) ==
    Add32(Times32(accessor.stride, accessor.count - 1),
          U32Of(NumComponents(accessor.type) * ComponentSize(accessor.component_type)))
\* The byte offset of the accessor plus that of its view, as a 32-bit
\* unsigned value.
OffsetOfAccessor(accessor) ==
    << (accessor.offset[1] + accessor.view_offset[1]
           + (accessor.offset[2] + accessor.view_offset[2]) \div 65536) % 65536,
       (accessor.offset[2] + accessor.view_offset[2]) % 65536 >>
\* The binding b has the size and the offset of the accessor.
SizedBy(b, accessor) ==
    b.size = SizeOfAccessor(accessor) /\ b.offset = OffsetOfAccessor(accessor)
\* The index accessors of the primitives of the visited meshes.
IndexAccessorsVisited ==
    {Meshes(doc)[mi[1]][mi[2]].indices[1] :
        mi \in {x \in PrimitivesVisited : Meshes(doc)[x[1]][x[2]].indices # Null}}

\* C25: every binding with source bytes has the size stride x (count - 1) +
\* elementSize of its accessor and the offset of the accessor plus the offset
\* of its buffer view, as 32-bit unsigned values: the index binding of a
\* built primitive those of its index accessor, a vertex binding those of
\* the attribute of its slot, any other index binding those of an index
\* accessor of the document.
BindingSizeAndOffset ==
    pc = "traverse" =>
        /\ \A mi \in BuiltPrimitives : \A k \in DOMAIN mResult[1].mBufferBindings :
              /\ (/\ mResult[1].mBufferBindings[k].data
                  /\ mResult[1].mBufferBindings[k].indexBuffer = mMeshCache[mi[1]][mi[2]].indices)
                     => /\ Meshes(doc)[mi[1]][mi[2]].indices # Null
                        /\ SizedBy(mResult[1].mBufferBindings[k], Meshes(doc)[mi[1]][mi[2]].indices[1])
              /\ (/\ mResult[1].mBufferBindings[k].data
                  /\ mResult[1].mBufferBindings[k].vertexBuffer = mMeshCache[mi[1]][mi[2]].vertices)
                     => /\ mResult[1].mBufferBindings[k].bufferIndex + 1
                              \in DOMAIN Meshes(doc)[mi[1]][mi[2]].attributes
                        /\ SizedBy(mResult[1].mBufferBindings[k],
                                   Meshes(doc)[mi[1]][mi[2]]
                                       .attributes[mResult[1].mBufferBindings[k].bufferIndex + 1].data)
        /\ \A k \in DOMAIN mResult[1].mBufferBindings :
              mResult[1].mBufferBindings[k].data =>
                  \/ mResult[1].mBufferBindings[k].vertexBuffer # 0
                  \/ \E accessor \in IndexAccessorsVisited :
                        SizedBy(mResult[1].mBufferBindings[k], accessor)

\* Bindings with source bytes are built for an accessor whose size and
\* offset pass 2^32 (left: size 505032704, offset 48), for an index accessor
\* and for an interleaved accessor (3 colours of 4 bytes, 16 bytes apart).
WrappedBindingBuilt ==
    /\ pc = "traverse"
    /\ \E k \in DOMAIN mResult[1].mBufferBindings :
          /\ mResult[1].mBufferBindings[k].data
          /\ mResult[1].mBufferBindings[k].vertexBuffer # 0
          /\ mResult[1].mBufferBindings[k].size = U32Of(36)
    /\ \E j \in DOMAIN mResult[1].mBufferBindings, k \in DOMAIN mResult[1].mBufferBindings :
          /\ mResult[1].mBufferBindings[j].data
          /\ mResult[1].mBufferBindings[j].vertexBuffer # 0
          /\ mResult[1].mBufferBindings[j].size = << 7706, 12288 >>
          /\ mResult[1].mBufferBindings[j].offset = << 0, 48 >>
          /\ mResult[1].mBufferBindings[k].data
          /\ mResult[1].mBufferBindings[k].indexBuffer # 0
          /\ mResult[1].mBufferBindings[k].size = U32Of(12)

====
